---- MODULE Spec2Model ----
(***************************************************************************)
(* A model of the recipe bot of src/main.py: the per-user session mode,    *)
(* the settings / history / favorites tables of the SQLite store, the      *)
(* tracked-screen list of the chat cleanup, and the handlers of commands,  *)
(* free text and inline callbacks.  Every handler is one action: the       *)
(* application handles one update at a time, so a handler runs to its end  *)
(* before the next update is taken.  Strings the code parses are modelled  *)
(* as sequences of one-character strings.                                  *)
(***************************************************************************)
EXTENDS Integers, Sequences, FiniteSets, TLC

\* ------------------------------------------------------------------ bounds
NumMeals == 2
MaxItems == 4
MaxPageSize == 3
MaxPage == 5
HistPrefill == 199
MaxInserts == 3
MaxDigits == 2
MaxVisible == 4

\* ------------------------------------------------------- program constants
PAGE_SIZE == 20
MAX_TRACKED_BOT_MSGS == 30
HISTORY_KEEP == 200
DEFAULT_MAX == 5
MAX_LO == 1
MAX_HI == 10
MAX_TOKENS == 8

Users == {1, 2}
Meals == 1..NumMeals

Min(a, b) == IF a < b THEN a ELSE b
Max(a, b) == IF a > b THEN a ELSE b

\* ------------------------------------------------------------ pure helpers
clampHiOnly(n, lo, hi) == IF n > hi THEN hi ELSE n
\* clamp(n, lo, hi): lo if n < lo else hi if n > hi else n
clamp(n, lo, hi) == IF n < lo THEN lo ELSE IF n > hi THEN hi ELSE n

\* Python's s[a:b] for a, b >= 0: the elements at 0-based positions a..b-1 that exist.
PySlice(s, a, b) ==
    LET lo == Min(a, Len(s))
        hi == Min(b, Len(s))
    IN  IF lo >= hi THEN << >> ELSE SubSeq(s, lo + 1, hi)

paginateNoClamp(items, page, page_size) ==
    LET total_pages == Max(1, (Len(items) + page_size - 1) \div page_size)
        start_idx == Max(page, 0) * page_size
    IN  [slice |-> PySlice(items, start_idx, start_idx + page_size), total |-> total_pages]
paginateFloor(items, page, page_size) ==
    LET total_pages == Max(1, Len(items) \div page_size)
        p == clamp(page, 0, total_pages - 1)
    IN  [slice |-> PySlice(items, p * page_size, p * page_size + page_size), total |-> total_pages]
\* paginate(items, page, page_size) -> (items[start:end], total_pages)
paginate(items, page, page_size) ==
    LET total_pages == Max(1, (Len(items) + page_size - 1) \div page_size)
        p == clamp(page, 0, total_pages - 1)
        start_idx == p * page_size
        end_idx == start_idx + page_size
    IN  [slice |-> PySlice(items, start_idx, end_idx), total |-> total_pages]

\* ---------------------------------------------------------------- strings
Whitespace == {" ", "\n"}

RECURSIVE Split(_, _)
\* str.split(sep): the fields between the separators, empty fields kept
Split(s, sep) ==
    IF \A i \in 1..Len(s) : s[i] # sep
    THEN << s >>
    ELSE LET i == CHOOSE k \in 1..Len(s) : s[k] = sep /\ \A j \in 1..(k - 1) : s[j] # sep
         IN  << SubSeq(s, 1, i - 1) >> \o Split(SubSeq(s, i + 1, Len(s)), sep)

RECURSIVE LStrip(_)
LStrip(s) == IF s # << >> /\ Head(s) \in Whitespace THEN LStrip(Tail(s)) ELSE s
RECURSIVE RStrip(_)
RStrip(s) ==
    IF s # << >> /\ s[Len(s)] \in Whitespace THEN RStrip(SubSeq(s, 1, Len(s) - 1)) ELSE s
\* str.strip()
Strip(s) == RStrip(LStrip(s))

\* str.replace(a, b) for one-character a and b
Replace(s, a, b) == [i \in 1..Len(s) |-> IF s[i] = a THEN b ELSE s[i]]

LowerChar(c) == CASE c = "A" -> "a" [] c = "B" -> "b" [] OTHER -> c
\* str.lower()
Lower(s) == [i \in 1..Len(s) |-> LowerChar(s[i])]

RECURSIVE SelectNonEmpty(_)
SelectNonEmpty(fields) ==
    IF fields = << >> THEN << >>
    ELSE IF Strip(Head(fields)) # << >>
         THEN << Strip(Head(fields)) >> \o SelectNonEmpty(Tail(fields))
         ELSE SelectNonEmpty(Tail(fields))

parse_ingredientsKeepEmpty(s) ==
    LET t == Replace(Replace(s, ";", ","), "\n", ",")
        fields == Split(t, ",")
    IN  PySlice([i \in 1..Len(fields) |-> Replace(Lower(Strip(fields[i])), " ", "_")], 0, MAX_TOKENS)
\* parse_ingredients(s): split on , ; newline, strip, drop empty, lower, spaces to _, first 8
parse_ingredients(s) ==
    LET t == Replace(Replace(s, ";", ","), "\n", ",")
        items == SelectNonEmpty(Split(t, ","))
    IN  PySlice([i \in 1..Len(items) |-> Replace(Lower(items[i]), " ", "_")], 0, MAX_TOKENS)

Digits == {"0", "1", "2", "3", "4", "5", "6", "7", "8", "9"}
DigitVal(c) ==
    CASE c = "0" -> 0 [] c = "1" -> 1 [] c = "2" -> 2 [] c = "3" -> 3 [] c = "4" -> 4
      [] c = "5" -> 5 [] c = "6" -> 6 [] c = "7" -> 7 [] c = "8" -> 8 [] c = "9" -> 9
RECURSIVE DigitsValue(_, _)
DigitsValue(s, acc) ==
    IF s = << >> THEN acc
    ELSE IF Head(s) = "_" THEN DigitsValue(Tail(s), acc)
         ELSE DigitsValue(Tail(s), 10 * acc + DigitVal(Head(s)))
RECURSIVE Str(_)
\* str(n) of an integer: its decimal digits, after a "-" when negative
Str(n) ==
    IF n < 0 THEN << "-" >> \o Str(0 - n)
    ELSE LET d == CHOOSE c \in Digits : DigitVal(c) = n % 10
         IN  IF n < 10 THEN << d >> ELSE Str(n \div 10) \o << d >>

\* int(text): optional sign, decimal digits (single underscores between digits allowed),
\* surrounding whitespace ignored; anything else raises ValueError (ok = FALSE)
ParseInt(text) ==
    LET s == Strip(text)
        signed == s # << >> /\ Head(s) \in {"-", "+"}
        body == IF signed THEN Tail(s) ELSE s
        wellFormed ==
            /\ body # << >>
            /\ \A i \in 1..Len(body) : body[i] \in Digits \cup {"_"}
            /\ body[1] \in Digits /\ body[Len(body)] \in Digits
            /\ \A i \in 1..(Len(body) - 1) : ~(body[i] = "_" /\ body[i + 1] = "_")
    IN  IF ~wellFormed THEN [ok |-> FALSE, val |-> 0]
        ELSE [ok |-> TRUE,
              val |-> IF signed /\ Head(s) = "-" THEN 0 - DigitsValue(body, 0)
                      ELSE DigitsValue(body, 0)]

\* ------------------------------------------------------------------- state
VARIABLES
    mode,       \* [Users -> "none" | "name" | "ing" | "set_max"]: context.user_data["mode"]
    settings,   \* [Users -> << >> | << max_results >>]: the user's row of table settings
    history,    \* rows [id, user, meal, name] of table history, in id order
    histSeq,    \* the AUTOINCREMENT counter of table history
    histLog,    \* the history insertions [user, meal] since the user's last clear, in order
    favs,       \* rows [user, meal, name] of table favorites, in insertion order
    tracked,    \* [Users -> Seq(message id)]: context.user_data["bot_msg_ids"]
    visible,    \* [Users -> set of ids of the bot's messages present in the chat]
    out,        \* what the handling of the last update did
    pg          \* the last application of paginate, or of the builders and parsers of
                \* a callback payload: its arguments and result

vars == << mode, settings, history, histSeq, histLog, favs, tracked, visible, out, pg >>

EmptyId == 0
PLACEHOLDER == "-"
\* the catalog's strMeal of a meal
NameOf(m) == ToString(m)

LastN(s, n) == IF Len(s) <= n THEN s ELSE SubSeq(s, Len(s) - n + 1, Len(s))
Reverse(s) == [i \in 1..Len(s) |-> s[Len(s) + 1 - i]]
Range(s) == {s[i] : i \in 1..Len(s)}

\* ---------------------------------------------------------------------- DB
DB_get_maxRaw(row) == [val |-> IF row = << >> THEN DEFAULT_MAX ELSE row[1], row |-> row]
\* DB.get_max: the stored value; a user without a row gets one holding 5
DB_get_max(row) ==
    IF row = << >> THEN [val |-> DEFAULT_MAX, row |-> << DEFAULT_MAX >>]
    ELSE [val |-> row[1], row |-> row]

\* DB.set_max: upsert
DB_set_max(row, val) == << val >>

RowsOf(rows, u) == LET Mine(r) == r.user = u IN SelectSeq(rows, Mine)

DB_add_historyKeepOldest(rows, seq, u, meal, name) ==
    LET added == Append(rows, [id |-> seq + 1, user |-> u, meal |-> meal, name |-> name])
        mine == RowsOf(added, u)
        keep == {mine[i].id : i \in 1..Min(Len(mine), HISTORY_KEEP)}
        Kept(r) == r.user # u \/ r.id \in keep
    IN  SelectSeq(added, Kept)
DB_add_historyNoTrim(rows, seq, u, meal, name) ==
    Append(rows, [id |-> seq + 1, user |-> u, meal |-> meal, name |-> name])
\* DB.add_history: insert, then delete the user's rows outside the 200 highest ids
DB_add_history(rows, seq, u, meal, name) ==
    LET added == Append(rows, [id |-> seq + 1, user |-> u, meal |-> meal, name |-> name])
        top == LastN(RowsOf(added, u), HISTORY_KEEP)
        keep == {top[i].id : i \in 1..Len(top)}
        Kept(r) == r.user # u \/ r.id \in keep
    IN  SelectSeq(added, Kept)

DB_get_historyAsc(rows, u, limit) ==
    LET mine == RowsOf(rows, u)
    IN  PySlice([i \in 1..Len(mine) |-> [meal |-> mine[i].meal, name |-> mine[i].name]], 0, limit)
\* DB.get_history: the user's rows by id descending, at most limit of them
DB_get_history(rows, u, limit) ==
    LET mine == Reverse(RowsOf(rows, u))
    IN  PySlice([i \in 1..Len(mine) |-> [meal |-> mine[i].meal, name |-> mine[i].name]], 0, limit)

\* DELETE FROM history without the WHERE clause
DB_clear_historyAll(rows, u) == << >>
\* DB.clear_history
DB_clear_history(rows, u) == LET Other(r) == r.user # u IN SelectSeq(rows, Other)

\* DB.is_fav
DB_is_fav(rows, u, meal) == \E i \in 1..Len(rows) : rows[i].user = u /\ rows[i].meal = meal

\* DB.del_fav
DB_del_fav(rows, u, meal) ==
    LET Other(r) == ~(r.user = u /\ r.meal = meal) IN SelectSeq(rows, Other)

DB_add_favNoReplace(rows, u, meal, name) ==
    Append(rows, [user |-> u, meal |-> meal, name |-> name])
\* DB.add_fav: INSERT OR REPLACE on the primary key (user_id, meal_id)
DB_add_fav(rows, u, meal, name) ==
    Append(DB_del_fav(rows, u, meal), [user |-> u, meal |-> meal, name |-> name])

\* DB.clear_favs
DB_clear_favs(rows, u) == LET Other(r) == r.user # u IN SelectSeq(rows, Other)

\* DB.get_favs: the user's rows by ts descending (rows are kept in the order of
\* their timestamps), at most limit of them
DB_get_favs(rows, u, limit) ==
    LET mine == Reverse(RowsOf(rows, u))
    IN  PySlice([i \in 1..Len(mine) |-> [meal |-> mine[i].meal, name |-> mine[i].name]], 0, limit)

\* ---------------------------------------------------------------- screens
\* A message the bot sends: the text's kind, its variable part and its buttons.
Scr(kind, txt, items, val) ==
    [kind |-> kind, txt |-> txt, items |-> items, val |-> val, prev |-> << >>, next |-> << >>]

\* list_kb / meals_kb: Prev when page > 0, Next when page < total_pages - 1
NavScr(kind, txt, items, page, total_pages) ==
    [kind |-> kind, txt |-> txt, items |-> items, val |-> page,
     prev |-> IF page > 0 THEN << page - 1 >> ELSE << >>,
     next |-> IF page < total_pages - 1 THEN << page + 1 >> ELSE << >>]

\* ----------------------------------------------------------- chat cleanup
\* A new message gets an id no message of the chat has; only the identity of an id
\* matters, so it is the least id not in use in the chat.
FreshId(ui) ==
    LET used == ui.visible \cup Range(ui.tracked)
    IN  CHOOSE i \in 1..(Cardinality(used) + 1) : i \notin used /\ \A j \in 1..(i - 1) : j \in used

UiCleanupKeepTracked(ui, keep_ids, delFail) ==
    [tracked |-> LastN(ui.tracked \o keep_ids, MAX_TRACKED_BOT_MSGS), visible |-> ui.visible]
UiCleanupStopAtFailure(ui, keep_ids, delFail) ==
    LET attempted == {mid \in Range(ui.tracked) : mid \notin Range(keep_ids)}
    IN  IF attempted \cap delFail # {} THEN ui
        ELSE [tracked |-> LastN(keep_ids, MAX_TRACKED_BOT_MSGS),
              visible |-> ui.visible \ attempted]
\* _ui_cleanup: delete the tracked ids that are not kept (a failing delete is
\* ignored), then track keep_ids[-30:]
UiCleanup(ui, keep_ids, delFail) ==
    LET attempted == {mid \in Range(ui.tracked) : mid \notin Range(keep_ids)}
    IN  [tracked |-> LastN(keep_ids, MAX_TRACKED_BOT_MSGS),
         visible |-> ui.visible \ (attempted \ delFail)]

\* The outcome of (a part of) a handler: the user's local state st, the screens
\* sent, the catalog calls issued, and the exception that ended it ("none" if none).
\* info holds the handler's local values that the properties speak of.
\* ids are the ids of the messages sent, in send order; userMsg tells whether the
\* user's message that triggered the update is still in the chat.
Res(st) ==
    [st |-> st, sent |-> << >>, ids |-> << >>, calls |-> << >>, exc |-> "none", info |-> << >>,
     userMsg |-> "present"]
\* ... of a callback query, which has no message of the user (update.message is None)
ResCb(st) == [Res(st) EXCEPT !.userMsg = "none"]

\* _safe_delete of the user's message: a failing delete is ignored
safe_delete_user_message(r, tg) ==
    IF r.userMsg = "present" /\ tg.userDelOk THEN [r EXCEPT !.userMsg = "deleted"] ELSE r

\* ui_reply: reply_text, then _ui_cleanup keeping the new message; a failing send
\* raises TelegramError before anything else is done
ui_reply(r, scr, sendOk, tg) ==
    IF ~sendOk THEN [r EXCEPT !.exc = "telegram"]
    ELSE LET id == FreshId(r.st.ui)
             sentUi == [r.st.ui EXCEPT !.visible = @ \cup {id}]
         IN  safe_delete_user_message(
                 [r EXCEPT !.st.ui = UiCleanup(sentUi, << id >>, tg.delFail),
                           !.sent = Append(@, scr), !.ids = Append(@, id)],
                 tg)

\* The messages UserError carries (MealDB.get)
UserErrors == {"timeout", "network", "status", "invalid"}

\* MealDB.get: the transport's outcome becomes the result or a UserError
MealDB_get(resp) ==
    CASE resp.outcome = "ok" -> "none"
      [] resp.outcome = "TimeoutException" -> "timeout"
      [] resp.outcome = "RequestError" -> "network"
      [] resp.outcome = "HTTPStatusError" -> "status"
      [] resp.outcome = "ValueError" -> "invalid"

safe_runSwallow(r, tg) == [r EXCEPT !.exc = "none"]
\* safe_run: a UserError is answered with its message, any other exception with
\* the fallback; an exception of that reply itself is not caught
safe_run(r, tg) ==
    IF r.exc = "none" THEN r
    ELSE LET scr == IF r.exc \in UserErrors THEN Scr("error", r.exc, << >>, 0)
                    ELSE Scr("oops", "", << >>, 0)
         IN  ui_reply([r EXCEPT !.exc = "none"], scr, tg.errSendOk, tg)

\* The local state of user u that a handler reads and writes.
Local(u) ==
    [mode |-> mode[u], row |-> settings[u], history |-> history, histSeq |-> histSeq,
     histLog |-> histLog, favs |-> favs,
     ui |-> [tracked |-> tracked[u], visible |-> visible[u]]]

\* What the handling of an update leaves in the state; out records it.
Apply(u, trig, inp, tg, r) ==
    /\ mode' = [mode EXCEPT ![u] = r.st.mode]
    /\ settings' = [settings EXCEPT ![u] = r.st.row]
    /\ history' = r.st.history
    /\ histSeq' = r.st.histSeq
    /\ histLog' = r.st.histLog
    /\ favs' = r.st.favs
    /\ tracked' = [tracked EXCEPT ![u] = r.st.ui.tracked]
    /\ visible' = [visible EXCEPT ![u] = r.st.ui.visible]
    /\ out' = [user |-> u, trig |-> trig, inp |-> inp, sent |-> r.sent, ids |-> r.ids,
               calls |-> r.calls, exc |-> r.exc, preMode |-> mode[u], preRow |-> settings[u],
               info |-> r.info, userMsg |-> r.userMsg, tg |-> tg]
    /\ UNCHANGED pg

\* ---------------------------------------------------------------- catalog
\* A catalog record: idMeal (EmptyId when missing), strMeal ("" when missing),
\* and whether strMealThumb is set.
MealRec(m) == [id |-> m, name |-> NameOf(m), photo |-> TRUE]
Ids(meals) == [i \in 1..Len(meals) |-> meals[i].id]

\* MealDB.random / MealDB.lookup: the first record of "meals", if any
FirstMeal(resp) == IF resp.meals = << >> THEN << >> ELSE << resp.meals[1] >>

RECURSIVE SortedSeq(_)
\* sorted(set(...))
SortedSeq(S) ==
    IF S = {} THEN << >>
    ELSE LET lo == CHOOSE x \in S : \A y \in S : x <= y
         IN  << lo >> \o SortedSeq(S \ {lo})

\* MealDB.list_areas / list_categories: the non-empty names, distinct and sorted
ListNames(resp) == SortedSeq({resp.meals[i].id : i \in 1..Len(resp.meals)} \ {EmptyId})

\* ------------------------------------------------------------- send_meal
send_mealNoHistory(r, meal, u, tg) ==
    IF ~tg.sendOk THEN [r EXCEPT !.exc = "telegram"]
    ELSE LET tid == FreshId(r.st.ui)
             ui2 == [r.st.ui EXCEPT !.visible = @ \cup {tid}]
         IN  [r EXCEPT !.st.ui = UiCleanup(ui2, << tid >>, tg.delFail),
                       !.sent = Append(@, Scr("detail", "", << meal.id >>, 0))]
\* send_meal: record the view, send the photo (a failure is ignored) and the text,
\* then clean up keeping both
send_meal(r, meal, u, tg) ==
    LET meal_name == IF meal.name = "" THEN PLACEHOLDER ELSE meal.name
        st1 == IF meal.id # EmptyId
               THEN [r.st EXCEPT
                        !.history = DB_add_history(@, r.st.histSeq, u, meal.id, meal_name),
                        !.histSeq = @ + 1,
                        !.histLog = Append(@, [user |-> u, meal |-> meal.id])]
               ELSE r.st
        label == IF meal.id # EmptyId /\ DB_is_fav(st1.favs, u, meal.id) THEN "fav" ELSE "nofav"
        photoSent == meal.photo /\ tg.photoOk
        pid == FreshId(st1.ui)
        ui1 == IF photoSent THEN [st1.ui EXCEPT !.visible = @ \cup {pid}] ELSE st1.ui
        keep1 == IF photoSent THEN << pid >> ELSE << >>
        sent1 == IF photoSent THEN Append(r.sent, Scr("photo", "", << meal.id >>, 0)) ELSE r.sent
        ids1 == r.ids \o keep1
    IN  IF ~tg.sendOk
        THEN [r EXCEPT !.st = [st1 EXCEPT !.ui = ui1], !.sent = sent1, !.ids = ids1,
                       !.exc = "telegram"]
        ELSE LET tid == FreshId(ui1)
                 ui2 == [ui1 EXCEPT !.visible = @ \cup {tid}]
             IN  safe_delete_user_message(
                     [r EXCEPT !.st = [st1 EXCEPT !.ui = UiCleanup(ui2, Append(keep1, tid),
                                                                   tg.delFail)],
                               !.sent = Append(sent1, Scr("detail", label, << meal.id >>, 0)),
                               !.ids = Append(ids1, tid)],
                     tg)

\* --------------------------------------------------------------- commands
\* start
start(r, tg) ==
    ui_reply([r EXCEPT !.st.mode = "none"], Scr("welcome", "MENU", << >>, 0), tg.sendOk, tg)

\* help_cmd
help_cmd(r, tg) == ui_reply(r, Scr("help", "MENU", << >>, 0), tg.sendOk, tg)

settings_cmdClamped(r, tg) ==
    LET g == DB_get_max(r.st.row)
    IN  ui_reply([r EXCEPT !.st.row = g.row, !.st.mode = "set_max"],
                 Scr("settings", "BACK", << >>, clamp(g.val, MAX_LO, MAX_HI)), tg.sendOk, tg)
\* settings_cmd: shows db.get_max as it is stored
settings_cmd(r, tg) ==
    LET g == DB_get_max(r.st.row)
    IN  ui_reply([r EXCEPT !.st.row = g.row, !.st.mode = "set_max"],
                 Scr("settings", "BACK", << >>, g.val), tg.sendOk, tg)

\* history_cmd
history_cmd(r, u, tg) ==
    LET g == DB_get_max(r.st.row)
        limit == clamp(g.val, MAX_LO, MAX_HI)
        items == DB_get_history(r.st.history, u, limit)
        r1 == [r EXCEPT !.st.row = g.row]
    IN  IF items = << >>
        THEN ui_reply(r1, Scr("history_empty", "MENU", << >>, limit), tg.sendOk, tg)
        ELSE ui_reply(r1, Scr("history", "", [i \in 1..Len(items) |-> items[i].meal], limit), tg.sendOk, tg)

\* favorites_cmd
favorites_cmd(r, u, tg) ==
    LET g == DB_get_max(r.st.row)
        limit == clamp(g.val, MAX_LO, MAX_HI)
        items == DB_get_favs(r.st.favs, u, limit)
        r1 == [r EXCEPT !.st.row = g.row]
    IN  IF items = << >>
        THEN ui_reply(r1, Scr("favs_empty", "MENU", << >>, limit), tg.sendOk, tg)
        ELSE ui_reply(r1, Scr("favs", "", [i \in 1..Len(items) |-> items[i].meal], limit),
                      tg.sendOk, tg)

\* clearhistory_cmd
clearhistory_cmd(r, tg) == ui_reply(r, Scr("confirm", "history", << >>, 0), tg.sendOk, tg)

\* clearfavorites_cmd
clearfavorites_cmd(r, tg) == ui_reply(r, Scr("confirm", "favorites", << >>, 0), tg.sendOk, tg)

\* One catalog call: the call is recorded, and a failed transport raises its UserError.
Called(r, op, arg, resp) ==
    [r EXCEPT !.calls = Append(@, [op |-> op, arg |-> arg, raised |-> MealDB_get(resp)]),
              !.exc = MealDB_get(resp)]

\* random_cmd
random_cmd(r, u, api, tg) ==
    LET c == Called(r, "random", << >>, api[1])
        meal == FirstMeal(api[1])
        done == IF c.exc # "none" THEN c
                ELSE IF meal = << >>
                     THEN ui_reply(c, Scr("nothing_found", "MENU", << >>, 0), tg.sendOk, tg)
                     ELSE send_meal(c, meal[1], u, tg)
    IN  safe_run(done, tg)

\* name_cmd
name_cmd(r, tg) ==
    ui_reply([r EXCEPT !.st.mode = "name"], Scr("name_prompt", "BACK", << >>, 0), tg.sendOk, tg)

\* find_cmd
find_cmdOtherMode(r, tg) ==
    ui_reply([r EXCEPT !.st.mode = "find"], Scr("ing_prompt", "BACK", << >>, 0), tg.sendOk, tg)
\* find_cmd
find_cmd(r, tg) ==
    ui_reply([r EXCEPT !.st.mode = "ing"], Scr("ing_prompt", "BACK", << >>, 0), tg.sendOk, tg)

\* cuisines_cmd / categories_cmd: the first page of the names
names_cmd(r, kind, api, tg) ==
    LET c == Called(r, IF kind = "area" THEN "list_areas" ELSE "list_categories", << >>, api[1])
        p == paginate(ListNames(api[1]), 0, PAGE_SIZE)
        done == IF c.exc # "none" THEN c
                ELSE ui_reply([c EXCEPT !.info = [all |-> ListNames(api[1]), page |-> 0]],
                              NavScr(kind, "", p.slice, 0, p.total), tg.sendOk, tg)
    IN  safe_run(done, tg)

\* ------------------------------------------------------------ text handler
\* The labels of the menu buttons; a label is one symbol no typed text contains.
BTN_ING == << "BTN_ING" >>
BTN_NAME == << "BTN_NAME" >>
BTN_AREA == << "BTN_AREA" >>
BTN_CAT == << "BTN_CAT" >>
BTN_RANDOM == << "BTN_RANDOM" >>
BTN_HISTORY == << "BTN_HISTORY" >>
BTN_FAVS == << "BTN_FAVS" >>
BTN_SETTINGS == << "BTN_SETTINGS" >>
BTN_HELP == << "BTN_HELP" >>
BTN_BACK == << "BTN_BACK" >>
Buttons ==
    {BTN_ING, BTN_NAME, BTN_AREA, BTN_CAT, BTN_RANDOM, BTN_HISTORY, BTN_FAVS, BTN_SETTINGS,
     BTN_HELP, BTN_BACK}

IntersectAllUnion(sets) == UNION {sets[i] : i \in 1..Len(sets)}
IntersectAllFirst(sets) == sets[1]
RECURSIVE IntersectAll(_)
\* set.intersection(*sets) of a non-empty list of sets
IntersectAll(sets) ==
    IF Len(sets) = 1 THEN sets[1] ELSE sets[1] \cap IntersectAll(Tail(sets))

\* list(a_set): the members in the set's iteration order, which is the order ord
\* of this run's hash values
SetToList(S, ord) == LET In(x) == x \in S IN SelectSeq(ord, In)

on_text_set_maxFromZero(r, text, tg) ==
    LET p == ParseInt(text)
    IN  IF ~p.ok \/ ~(0 <= p.val /\ p.val <= MAX_HI)
        THEN ui_reply(r, Scr("set_max_retry", "BACK", << >>, 0), tg.sendOk, tg)
        ELSE ui_reply([r EXCEPT !.st.row = DB_set_max(@, p.val), !.st.mode = "none"],
                      Scr("saved", "MENU", << >>, p.val), tg.sendOk, tg)
\* the mode "set_max" of on_text
on_text_set_max(r, text, tg) ==
    LET p == ParseInt(text)
    IN  IF ~p.ok \/ ~(MAX_LO <= p.val /\ p.val <= MAX_HI)
        THEN ui_reply(r, Scr("set_max_retry", "BACK", << >>, 0), tg.sendOk, tg)
        ELSE ui_reply([r EXCEPT !.st.row = DB_set_max(@, p.val), !.st.mode = "none"],
                      Scr("saved", "MENU", << >>, p.val), tg.sendOk, tg)

\* ... popping the mode before the call instead of after it
on_text_namePopFirst(r, text, limit, api, tg) ==
    LET c == Called([r EXCEPT !.st.mode = "none"], "search_name", text, api[1])
        meals == api[1].meals
        c1 == [c EXCEPT !.info = [limit |-> limit, meals |-> Ids(meals)]]
        done == IF c.exc # "none" THEN c
                ELSE IF meals = << >>
                     THEN ui_reply(c1, Scr("no_results", "MENU", << >>, 0), tg.sendOk, tg)
                     ELSE ui_reply(c1, Scr("name_results", "", Ids(PySlice(meals, 0, limit)), 0),
                                   tg.sendOk, tg)
    IN  safe_run(done, tg)
on_text_nameNoCap(r, text, limit, api, tg) ==
    LET c == Called(r, "search_name", text, api[1])
        meals == api[1].meals
        c1 == [c EXCEPT !.st.mode = "none", !.info = [limit |-> limit, meals |-> Ids(meals)]]
        done == IF c.exc # "none" THEN c
                ELSE IF meals = << >>
                     THEN ui_reply(c1, Scr("no_results", "MENU", << >>, 0), tg.sendOk, tg)
                     ELSE ui_reply(c1, Scr("name_results", "", Ids(meals), 0), tg.sendOk, tg)
    IN  safe_run(done, tg)
\* the mode "name" of on_text
on_text_name(r, text, limit, api, tg) ==
    LET c == Called(r, "search_name", text, api[1])
        meals == api[1].meals
        c1 == [c EXCEPT !.st.mode = "none", !.info = [limit |-> limit, meals |-> Ids(meals)]]
        done == IF c.exc # "none" THEN c
                ELSE IF meals = << >>
                     THEN ui_reply(c1, Scr("no_results", "MENU", << >>, 0), tg.sendOk, tg)
                     ELSE ui_reply(c1, Scr("name_results", "", Ids(PySlice(meals, 0, limit)), 0),
                                   tg.sendOk, tg)
    IN  safe_run(done, tg)

\* `for ing in ings: items = await api.filter_ing(ing)`: call k is issued and its
\* response awaited before call k + 1 is issued; the events of the first n calls
AwaitedInTurn(n) ==
    [k \in 1..(2 * n) |->
        [ev |-> IF k % 2 = 1 THEN "issued" ELSE "returned", call |-> (k + 1) \div 2]]
on_text_ingSkipFailed(r, text, limit, api, tg, ord) ==
    LET ings == parse_ingredients(text)
        okIdx == SelectSeq([i \in 1..Len(ings) |-> i], LAMBDA i : api[i].outcome = "ok")
        sets == [k \in 1..Len(okIdx) |-> Range(Ids(api[okIdx[k]].meals)) \ {EmptyId}]
        common == IF sets # << >> THEN IntersectAll(sets) ELSE {}
        c1 == [r EXCEPT !.st.mode = "none",
                        !.calls = [i \in 1..Len(ings) |->
                                    [op |-> "filter_ing", arg |-> ings[i],
                                     raised |-> MealDB_get(api[i])]],
                        !.info = [tokens |-> ings, resps |-> api, common |-> common,
                                  limit |-> limit]]
    IN  IF ings = << >>
        THEN ui_reply([r EXCEPT !.info = [tokens |-> ings]], Scr("example", "BACK", << >>, 0),
                      tg.sendOk, tg)
        ELSE IF common = {}
             THEN ui_reply(c1, Scr("no_matches", "MENU", << >>, 0), tg.sendOk, tg)
             ELSE ui_reply(c1, Scr("ing_results", "", PySlice(SetToList(common, ord), 0, limit), 0),
                           tg.sendOk, tg)
\* the mode "ing" of on_text: one filter_ing call per token, in turn; the first
\* failing call ends the search with its UserError
on_text_ing(r, text, limit, api, tg, ord) ==
    LET ings == parse_ingredients(text)
        failed == {i \in 1..Len(ings) : api[i].outcome # "ok"}
        last == IF failed = {} THEN Len(ings) ELSE CHOOSE i \in failed : \A j \in failed : i <= j
        calls == [i \in 1..last |->
                    [op |-> "filter_ing", arg |-> ings[i], raised |-> MealDB_get(api[i])]]
        sets == [i \in 1..Len(ings) |-> Range(Ids(api[i].meals)) \ {EmptyId}]
        common == IF sets # << >> THEN IntersectAll(sets) ELSE {}
        c1 == [r EXCEPT !.st.mode = "none", !.calls = calls,
                        !.info = [tokens |-> ings, resps |-> api, common |-> common,
                                  limit |-> limit, events |-> AwaitedInTurn(last)]]
        done ==
            IF ings = << >>
            THEN ui_reply([r EXCEPT !.info = [tokens |-> ings]], Scr("example", "BACK", << >>, 0),
                          tg.sendOk, tg)
            ELSE IF failed # {}
                 THEN [r EXCEPT !.calls = calls, !.exc = MealDB_get(api[last]),
                                !.info = [tokens |-> ings, resps |-> api,
                                          events |-> AwaitedInTurn(last)]]
                 ELSE IF common = {}
                      THEN ui_reply(c1, Scr("no_matches", "MENU", << >>, 0), tg.sendOk, tg)
                      ELSE ui_reply(c1, Scr("ing_results", "",
                                            PySlice(SetToList(common, ord), 0, limit), 0),
                                    tg.sendOk, tg)
    IN  safe_run(done, tg)

\* on_text after the Back button: the other buttons, then the pending input
on_text_dispatch(r, u, text, api, tg, ord) ==
    IF text = BTN_HELP THEN help_cmd(r, tg)
    ELSE IF text = BTN_SETTINGS THEN settings_cmd(r, tg)
    ELSE IF text = BTN_HISTORY THEN history_cmd(r, u, tg)
    ELSE IF text = BTN_FAVS THEN favorites_cmd(r, u, tg)
    ELSE IF text = BTN_RANDOM THEN random_cmd(r, u, api, tg)
    ELSE IF text = BTN_NAME THEN name_cmd(r, tg)
    ELSE IF text = BTN_ING THEN find_cmd(r, tg)
    ELSE IF text = BTN_AREA THEN names_cmd(r, "area", api, tg)
    ELSE IF text = BTN_CAT THEN names_cmd(r, "cat", api, tg)
    ELSE LET g == DB_get_max(r.st.row)
             limit == clamp(g.val, MAX_LO, MAX_HI)
             r1 == [r EXCEPT !.st.row = g.row]
         IN  IF r.st.mode = "set_max" THEN on_text_set_max(r1, text, tg)
             ELSE IF r.st.mode = "name" THEN on_text_name(r1, text, limit, api, tg)
             ELSE IF r.st.mode = "ing" THEN on_text_ing(r1, text, limit, api, tg, ord)
             ELSE ui_reply(r1, Scr("use_menu", "MENU", << >>, 0), tg.sendOk, tg)

on_textBackKeepsMode(r, u, text, api, tg, ord) ==
    IF text = BTN_BACK
    THEN LET g == DB_get_max(r.st.row)
         IN  ui_reply([r EXCEPT !.st.row = g.row], Scr("ok", "MENU", << >>, 0), tg.sendOk, tg)
    ELSE on_text_dispatch(r, u, text, api, tg, ord)
\* on_text: the menu buttons first, then the text as the input the mode awaits
on_text(r, u, text, api, tg, ord) ==
    IF text = BTN_BACK
    THEN ui_reply([r EXCEPT !.st.mode = "none"], Scr("ok", "MENU", << >>, 0), tg.sendOk, tg)
    ELSE on_text_dispatch(r, u, text, api, tg, ord)

\* The number of catalog calls on_text may issue for this text in this mode.
TextCalls(u, text) ==
    IF text \in {BTN_RANDOM, BTN_AREA, BTN_CAT} THEN 1
    ELSE IF text \in Buttons THEN 0
    ELSE IF mode[u] = "name" THEN 1
    ELSE IF mode[u] = "ing" THEN Len(parse_ingredients(text))
    ELSE 0

\* -------------------------------------------------------- callback handler
\* Callback data "a:b:c" is the sequence of its fields << "a", b, c >>; a meal id
\* field is the id (EmptyId for the empty string), a page field is its text.
StartsWith(data, pre) == Len(data) > Len(pre) /\ SubSeq(data, 1, Len(pre)) = pre

\* The payloads that carry a name, as texts: the literal words are one element each
\* ("area", "sel", "page", "area_meals"), the separator and the characters of the
\* name and of the page number one element each.
NameChars == {"x", "A", "2", ":", " ", "%", "/"}
HexDigits ==
    {"0", "1", "2", "3", "4", "5", "6", "7", "8", "9",
     "A", "B", "C", "D", "E", "F", "a", "b", "c", "d", "e", "f"}
\* the characters urllib.parse.quote never encodes (letters, digits, "_.-~") and
\* its default safe = "/"
QuoteSafe == {"x", "A", "2", "_", ".", "-", "~", "/"}
\* "%" and the two upper-case hex digits of the character's byte
PercentCode(c) ==
    CASE c = ":" -> << "%", "3", "A" >>
      [] c = " " -> << "%", "2", "0" >>
      [] c = "%" -> << "%", "2", "5" >>
RECURSIVE quoteKeepColon(_)
\* quote(x, safe="/:")
quoteKeepColon(s) ==
    IF s = << >> THEN << >>
    ELSE (IF Head(s) \in QuoteSafe \cup {":"} THEN << Head(s) >> ELSE PercentCode(Head(s)))
         \o quoteKeepColon(Tail(s))
RECURSIVE quote(_)
\* urllib.parse.quote(x)
quote(s) ==
    IF s = << >> THEN << >>
    ELSE (IF Head(s) \in QuoteSafe THEN << Head(s) >> ELSE PercentCode(Head(s)))
         \o quote(Tail(s))
\* the character of the byte with hex digits h1 h2; "?" stands for every character
\* outside NameChars
ByteChar(h1, h2) ==
    CASE h1 = "3" /\ h2 \in {"A", "a"} -> ":"
      [] h1 = "2" /\ h2 = "0" -> " "
      [] h1 = "2" /\ h2 = "5" -> "%"
      [] h1 = "2" /\ h2 \in {"F", "f"} -> "/"
      [] h1 = "3" /\ h2 = "2" -> "2"
      [] h1 = "4" /\ h2 = "1" -> "A"
      [] h1 = "7" /\ h2 = "8" -> "x"
      [] OTHER -> "?"
RECURSIVE unquote(_)
\* urllib.parse.unquote(s): every "%" followed by two hex digits becomes the
\* character of that byte, in one pass; any other "%" stays
unquote(s) ==
    IF s = << >> THEN << >>
    ELSE IF Head(s) = "%" /\ Len(s) >= 3 /\ s[2] \in HexDigits /\ s[3] \in HexDigits
         THEN << ByteChar(s[2], s[3]) >> \o unquote(SubSeq(s, 4, Len(s)))
         ELSE << Head(s) >> \o unquote(Tail(s))
RECURSIVE SplitMax(_, _, _)
\* str.split(sep, maxsplit)
SplitMax(s, sep, maxsplit) ==
    IF maxsplit = 0 \/ \A i \in 1..Len(s) : s[i] # sep
    THEN << s >>
    ELSE LET i == CHOOSE k \in 1..Len(s) : s[k] = sep /\ \A j \in 1..(k - 1) : s[j] # sep
         IN  << SubSeq(s, 1, i - 1) >> \o SplitMax(SubSeq(s, i + 1, Len(s)), sep, maxsplit - 1)
\* list_kb: f"{prefix}:sel:{quote(x)}"
sel_data(prefix, x) == << prefix, ":", "sel", ":" >> \o quote(x)
\* meals_kb: f"{kind}_meals:page:{quote(value)}:{page}" for the page of Prev or Next
meals_page_data(kind, value, page) ==
    << kind \o "_meals", ":", "page", ":" >> \o quote(value) \o << ":" >> \o Str(page)
\* str.startswith
StartsWithText(data, pre) == Len(data) >= Len(pre) /\ SubSeq(data, 1, Len(pre)) = pre
\* cb: the branch that takes the payload, by the order of its startswith tests
cb_branch(data) ==
    CASE StartsWithText(data, << "area", ":", "page", ":" >>) -> "area:page"
      [] StartsWithText(data, << "cat", ":", "page", ":" >>) -> "cat:page"
      [] StartsWithText(data, << "area", ":", "sel", ":" >>) -> "area:sel"
      [] StartsWithText(data, << "cat", ":", "sel", ":" >>) -> "cat:sel"
      [] StartsWithText(data, << "area_meals", ":", "page", ":" >>) -> "area_meals:page"
      [] StartsWithText(data, << "cat_meals", ":", "page", ":" >>) -> "cat_meals:page"
      [] OTHER -> "other"
\* cb, "area:sel:" / "cat:sel:": unquote(data.split(":", 2)[2])
cb_sel_name(data) == unquote(SplitMax(data, ":", 2)[3])
\* cb, "area_meals:page:" / "cat_meals:page:": _, _, q, page_s = data.split(":", 3),
\* then unquote(q) and int(page_s); ok is FALSE when either raises ValueError
cb_meals_page_args(data) ==
    LET parts == SplitMax(data, ":", 3)
    IN  IF Len(parts) # 4 THEN [ok |-> FALSE, name |-> << >>, page |-> 0]
        ELSE LET p == ParseInt(parts[4])
             IN  [ok |-> p.ok, name |-> unquote(parts[3]), page |-> IF p.ok THEN p.val ELSE 0]

\* ... sending the detail's text again instead of editing its keyboard
cb_favRerender(r, u, mid, api, tg) ==
    IF mid = EmptyId THEN r
    ELSE IF DB_is_fav(r.st.favs, u, mid)
         THEN ui_reply([r EXCEPT !.st.favs = DB_del_fav(@, u, mid),
                                 !.info = [was |-> TRUE, mid |-> mid, edit |-> "markup"]],
                       Scr("detail", "nofav", << mid >>, 0), tg.sendOk, tg)
         ELSE LET c == Called(r, "lookup", << mid >>, api[1])
                  meal == FirstMeal(api[1])
                  title == IF meal = << >> \/ meal[1].name = "" THEN PLACEHOLDER
                           ELSE meal[1].name
              IN  IF c.exc # "none" THEN c
                  ELSE ui_reply([c EXCEPT !.st.favs = DB_add_fav(@, u, mid, title),
                                          !.info = [was |-> FALSE, mid |-> mid,
                                                    edit |-> "markup"]],
                                Scr("detail", "fav", << mid >>, 0), tg.sendOk, tg)
\* ... adding the favorite only when the lookup has found the meal
cb_favSkipMissing(r, u, mid, api, tg) ==
    IF mid = EmptyId THEN r
    ELSE IF DB_is_fav(r.st.favs, u, mid)
         THEN [r EXCEPT !.st.favs = DB_del_fav(@, u, mid),
                        !.info = [was |-> TRUE, mid |-> mid, edit |-> "markup"]]
         ELSE LET c == Called(r, "lookup", << mid >>, api[1])
                  meal == FirstMeal(api[1])
              IN  IF c.exc # "none" THEN c
                  ELSE [c EXCEPT !.st.favs = IF meal = << >> THEN @
                                             ELSE DB_add_fav(@, u, mid, meal[1].name),
                                 !.info = [was |-> FALSE, mid |-> mid, edit |-> "markup",
                                           found |-> meal # << >>]]
cb_favNoDelete(r, u, mid, api, tg) ==
    IF mid = EmptyId THEN r
    ELSE LET c == Called(r, "lookup", << mid >>, api[1])
             meal == FirstMeal(api[1])
             title == IF meal = << >> \/ meal[1].name = "" THEN PLACEHOLDER ELSE meal[1].name
         IN  IF c.exc # "none" THEN c
             ELSE [c EXCEPT !.st.favs = DB_add_fav(@, u, mid, title),
                            !.info = [was |-> DB_is_fav(r.st.favs, u, mid), mid |-> mid,
                                      edit |-> "markup"]]
\* cb, data "fav:<id>": remove the favorite if it is one, else look the meal up and
\* add it; then edit the keyboard of the message (a failure is ignored)
cb_fav(r, u, mid, api, tg) ==
    IF mid = EmptyId THEN r
    ELSE IF DB_is_fav(r.st.favs, u, mid)
         THEN [r EXCEPT !.st.favs = DB_del_fav(@, u, mid),
                        !.info = [was |-> TRUE, mid |-> mid, edit |-> "markup"]]
         ELSE LET c == Called(r, "lookup", << mid >>, api[1])
                  meal == FirstMeal(api[1])
                  title == IF meal = << >> \/ meal[1].name = "" THEN PLACEHOLDER
                           ELSE meal[1].name
              IN  IF c.exc # "none" THEN c
                  ELSE [c EXCEPT !.st.favs = DB_add_fav(@, u, mid, title),
                                 !.info = [was |-> FALSE, mid |-> mid, edit |-> "markup",
                                           found |-> meal # << >>]]

\* cb, data "unfav:<id>": remove, then show the list again (edited in place, or
\* sent anew when the edit fails)
cb_unfav(r, u, mid, tg) ==
    IF mid = EmptyId THEN r
    ELSE LET g == DB_get_max(r.st.row)
             limit == clamp(g.val, MAX_LO, MAX_HI)
             r1 == [r EXCEPT !.st.favs = DB_del_fav(@, u, mid), !.st.row = g.row]
             items == DB_get_favs(r1.st.favs, u, limit)
             shown == [i \in 1..Len(items) |-> items[i].meal]
         IN  IF items = << >>
             THEN ui_reply(r1, Scr("favs_empty", "MENU", << >>, limit), tg.sendOk, tg)
             ELSE IF tg.editOk
                  THEN [r1 EXCEPT !.info = [edit |-> "text", items |-> shown, limit |-> limit]]
                  ELSE ui_reply(r1, Scr("favs", "", shown, limit), tg.sendOk, tg)

cb_confirmAnyAnswer(r, u, data, tg) ==
    IF Len(data) < 3 THEN [r EXCEPT !.exc = "value"]
    ELSE IF data[2] = "history"
         THEN ui_reply([r EXCEPT !.st.history = DB_clear_history(@, u),
                                 !.st.histLog = DB_clear_history(@, u),
                                 !.info = [favs |-> Len(RowsOf(r.st.favs, u)),
                                           history |-> Len(RowsOf(r.st.history, u))]],
                       Scr("history_cleared", "MENU", << >>, 0), tg.sendOk, tg)
    ELSE ui_reply([r EXCEPT !.st.favs = DB_clear_favs(@, u),
                            !.info = [favs |-> Len(RowsOf(r.st.favs, u)),
                                      history |-> Len(RowsOf(r.st.history, u))]],
                  Scr("favs_cleared", "MENU", << >>, 0), tg.sendOk, tg)
\* cb, data "confirm:<kind>:<answer>": the counts in info are those before the clear
cb_confirm(r, u, data, tg) ==
    LET r0 == [r EXCEPT !.info = [favs |-> Len(RowsOf(r.st.favs, u)),
                                  history |-> Len(RowsOf(r.st.history, u))]]
    IN  IF Len(data) < 3 THEN [r EXCEPT !.exc = "value"]
        ELSE IF SubSeq(data, 3, Len(data)) = << "no" >>
             THEN ui_reply(r0, Scr("canceled", "MENU", << >>, 0), tg.sendOk, tg)
        ELSE IF data[2] = "history"
             THEN ui_reply([r0 EXCEPT !.st.history = DB_clear_history(@, u),
                                      !.st.histLog = DB_clear_history(@, u)],
                           Scr("history_cleared", "MENU", << >>, 0), tg.sendOk, tg)
        ELSE IF data[2] = "favorites"
             THEN ui_reply([r0 EXCEPT !.st.favs = DB_clear_favs(@, u)],
                           Scr("favs_cleared", "MENU", << >>, 0), tg.sendOk, tg)
        ELSE ui_reply(r0, Scr("use_menu", "MENU", << >>, 0), tg.sendOk, tg)

\* cb, data "area:page:<n>" / "cat:page:<n>": the names again, at the page asked for
cb_names_page(r, kind, data, api, tg) ==
    LET p == ParseInt(data[Len(data)])
        c == Called(r, IF kind = "area" THEN "list_areas" ELSE "list_categories", << >>, api[1])
        page == paginate(ListNames(api[1]), p.val, PAGE_SIZE)
    IN  IF ~p.ok THEN [r EXCEPT !.exc = "value"]
        ELSE IF c.exc # "none" THEN c
        ELSE ui_reply([c EXCEPT !.info = [all |-> ListNames(api[1]), page |-> p.val]],
                      NavScr(kind, "", page.slice, p.val, page.total), tg.sendOk, tg)

\* cb, data "area:sel:<name>" / "cat:sel:<name>": the first page of the meals
cb_sel(r, kind, data, api, tg) ==
    LET c == Called(r, IF kind = "area" THEN "filter_area" ELSE "filter_category",
                    << data[3] >>, api[1])
        page == paginate(Ids(api[1].meals), 0, PAGE_SIZE)
    IN  IF c.exc # "none" THEN c
        ELSE ui_reply([c EXCEPT !.info = [all |-> Ids(api[1].meals), page |-> 0]],
                      NavScr(kind \o "_meals", "", page.slice, 0, page.total), tg.sendOk, tg)

\* cb, data "area_meals:page:<name>:<n>" / "cat_meals:page:<name>:<n>"
cb_meals_page(r, kind, data, api, tg) ==
    LET p == ParseInt(data[4])
        c == Called(r, IF kind = "area" THEN "filter_area" ELSE "filter_category",
                    << data[3] >>, api[1])
        page == paginate(Ids(api[1].meals), p.val, PAGE_SIZE)
    IN  IF Len(data) # 4 THEN [r EXCEPT !.exc = "value"]
        ELSE IF ~p.ok THEN [r EXCEPT !.exc = "value"]
        ELSE IF c.exc # "none" THEN c
        ELSE ui_reply([c EXCEPT !.info = [all |-> Ids(api[1].meals), page |-> p.val]],
                      NavScr(kind \o "_meals", "", page.slice, p.val, page.total),
                      tg.sendOk, tg)

\* cb, data "meal:<id>"
cb_meal(r, u, mid, api, tg) ==
    LET c == Called(r, "lookup", << mid >>, api[1])
        meal == FirstMeal(api[1])
    IN  IF c.exc # "none" THEN c
        ELSE IF meal = << >>
             THEN ui_reply(c, Scr("load_failed", "MENU", << >>, 0), tg.sendOk, tg)
             ELSE send_meal(c, meal[1], u, tg)

\* cb: answer the query, then dispatch on the data inside safe_run
cb(r, u, data, api, tg) ==
    IF ~tg.answerOk THEN [r EXCEPT !.exc = "telegram"]
    ELSE safe_run(
        IF data = << "menu" >> THEN ui_reply(r, Scr("menu", "MENU", << >>, 0), tg.sendOk, tg)
        ELSE IF StartsWith(data, << "meal" >>) THEN cb_meal(r, u, data[2], api, tg)
        ELSE IF StartsWith(data, << "fav" >>) THEN cb_fav(r, u, data[2], api, tg)
        ELSE IF StartsWith(data, << "unfav" >>) THEN cb_unfav(r, u, data[2], tg)
        ELSE IF StartsWith(data, << "confirm" >>) THEN cb_confirm(r, u, data, tg)
        ELSE IF StartsWith(data, << "area", "page" >>) THEN cb_names_page(r, "area", data, api, tg)
        ELSE IF StartsWith(data, << "cat", "page" >>) THEN cb_names_page(r, "cat", data, api, tg)
        ELSE IF StartsWith(data, << "area", "sel" >>) THEN cb_sel(r, "area", data, api, tg)
        ELSE IF StartsWith(data, << "cat", "sel" >>) THEN cb_sel(r, "cat", data, api, tg)
        ELSE IF StartsWith(data, << "area_meals", "page" >>)
             THEN cb_meals_page(r, "area", data, api, tg)
        ELSE IF StartsWith(data, << "cat_meals", "page" >>)
             THEN cb_meals_page(r, "cat", data, api, tg)
        ELSE ui_reply(r, Scr("use_menu", "MENU", << >>, 0), tg.sendOk, tg),
        tg)

\* The number of catalog calls cb may issue for this data.
DataCalls(data) == IF data[1] \in {"menu", "unfav", "confirm"} THEN 0 ELSE 1

\* ------------------------------------------------------------ environment
\* What Telegram does with the requests of one update: whether the screen's send,
\* the send of safe_run's reply, the photo's send, the answer of the query and an
\* edit succeed, the tracked ids whose delete fails, and whether the delete of the
\* user's message succeeds.
TgOk ==
    [sendOk |-> TRUE, errSendOk |-> TRUE, photoOk |-> TRUE, answerOk |-> TRUE, editOk |-> TRUE,
     delFail |-> {}, userDelOk |-> TRUE]
TgSend == {[TgOk EXCEPT !.sendOk = a, !.errSendOk = b] : a, b \in BOOLEAN}
TgAll(u) ==
    {[sendOk |-> a, errSendOk |-> b, photoOk |-> c, answerOk |-> TRUE, editOk |-> e,
      delFail |-> {}, userDelOk |-> TRUE] : a, b, c, e \in BOOLEAN}
    \cup {[TgOk EXCEPT !.answerOk = FALSE]}

Outcomes == {"ok", "TimeoutException", "RequestError", "HTTPStatusError", "ValueError"}
Failure(o) == [outcome |-> o, meals |-> << >>]
Failures == {Failure(o) : o \in Outcomes \ {"ok"}}
Found(ids) == [outcome |-> "ok", meals |-> [i \in 1..Len(ids) |-> MealRec(ids[i])]]
\* a response with a record without id and a record listed twice
Ragged ==
    [outcome |-> "ok",
     meals |-> << [id |-> EmptyId, name |-> "", photo |-> FALSE], MealRec(1), MealRec(1) >>]
\* The responses of the catalog to a list query.
ListResponses == {Found(SortedSeq(S)) : S \in SUBSET Meals} \cup {Ragged} \cup Failures
\* The responses of the catalog to random / lookup.
OneResponses ==
    {Found(<< m >>) : m \in Meals} \cup {Found(<< >>)} \cup Failures
    \cup {[outcome |-> "ok", meals |-> << [id |-> m, name |-> "", photo |-> FALSE] >>]
            : m \in {EmptyId, 1}}

RECURSIVE Perms(_)
\* the orders in which a set of ids may be iterated
Perms(S) ==
    IF S = {} THEN {<< >>}
    ELSE UNION {{<< x >> \o p : p \in Perms(S \ {x})} : x \in S}

TextsOver(alphabet, n) == UNION {[1..k -> alphabet] : k \in 0..n}

\* --------------------------------------------------------------- actions
Start(u, tg) == Apply(u, "start", << >>, tg, start(Res(Local(u)), tg))
Help(u, tg) == Apply(u, "help", << >>, tg, help_cmd(Res(Local(u)), tg))
SettingsCmd(u, tg) == Apply(u, "settings", << >>, tg, settings_cmd(Res(Local(u)), tg))
HistoryCmd(u, tg) == Apply(u, "history", << >>, tg, history_cmd(Res(Local(u)), u, tg))
FavoritesCmd(u, tg) == Apply(u, "favorites", << >>, tg, favorites_cmd(Res(Local(u)), u, tg))
ClearHistoryCmd(u, tg) == Apply(u, "clearhistory", << >>, tg, clearhistory_cmd(Res(Local(u)), tg))
ClearFavoritesCmd(u, tg) ==
    Apply(u, "clearfavorites", << >>, tg, clearfavorites_cmd(Res(Local(u)), tg))
RandomCmd(u, api, tg) == Apply(u, "random", << >>, tg, random_cmd(Res(Local(u)), u, api, tg))
NameCmd(u, tg) == Apply(u, "name", << >>, tg, name_cmd(Res(Local(u)), tg))
FindCmd(u, tg) == Apply(u, "find", << >>, tg, find_cmd(Res(Local(u)), tg))
CuisinesCmd(u, api, tg) == Apply(u, "cuisines", << >>, tg, names_cmd(Res(Local(u)), "area", api, tg))
CategoriesCmd(u, api, tg) ==
    Apply(u, "categories", << >>, tg, names_cmd(Res(Local(u)), "cat", api, tg))
\* a text message; on_text strips it first
OnText(u, raw, api, tg, ord) ==
    Apply(u, "text", Strip(raw), tg, on_text(Res(Local(u)), u, Strip(raw), api, tg, ord))
\* a callback query
Cb(u, data, api, tg) == Apply(u, "cb", data, tg, cb(ResCb(Local(u)), u, data, api, tg))

\* ------------------------------------------------------------------- Init
StoredRows == {<< >>, << 0 >>, << 1 >>, << 15 >>}
NoOut ==
    [user |-> 1, trig |-> "init", inp |-> << >>, sent |-> << >>, ids |-> << >>, calls |-> << >>,
     exc |-> "none", preMode |-> "none", preRow |-> << >>, info |-> << >>, userMsg |-> "none",
     tg |-> TgOk]
NoPg ==
    [items |-> << >>, page |-> 0, size |-> 1, done |-> FALSE, slice |-> << >>, total |-> 0,
     pages |-> << >>]

\* The state when the process starts: no session, no tracked message; the store is
\* the database file, whose settings rows may hold any integer (the table has no
\* range check and outlives the process).  Only the users in active may have a row.
InitBot(active) ==
    /\ mode = [u \in Users |-> "none"]
    /\ settings \in {f \in [Users -> StoredRows] : \A u \in Users \ active : f[u] = << >>}
    /\ history = << >>
    /\ histSeq = 0
    /\ histLog = << >>
    /\ favs = << >>
    /\ tracked = [u \in Users |-> << >>]
    /\ visible = [u \in Users |-> {}]
    /\ out = NoOut
    /\ pg = NoPg

\* ------------------------------------------------- the ingredient search
\* Lines a user may send while ingredients are awaited: without a token, with one
\* token and with two, with each separator, with blanks and capitals.
IngTexts ==
    { << ",", ";" >>, << " ", "\n", ",", " " >>,
      << "a" >>, << " ", "B", " ", "a", ";" >>,
      << "B", "\n", " ", "a", " ", "a" >> }
IngUsers == {1}
IngRows == {<< >>, << 1 >>}
\* The responses of the catalog to filter.php?i=: any set of meals, a ragged list,
\* or a failure of the transport.
IngResponses ==
    {Found(SortedSeq(S)) : S \in SUBSET Meals} \cup {Ragged}
    \cup {Failure("TimeoutException"), Failure("ValueError")}
\* The orders in which the ids that every response holds may be iterated.
Orders(api) ==
    Perms({m \in Meals : \A i \in DOMAIN api : m \in Range(Ids(api[i].meals))})
\* Telegram refuses the screen's send, or the send of safe_run's reply, or neither.
TgReplies == {TgOk, [TgOk EXCEPT !.sendOk = FALSE], [TgOk EXCEPT !.errSendOk = FALSE]}
InitIng == InitBot(IngUsers) /\ \A u \in IngUsers : settings[u] \in IngRows
NextIng ==
    \E u \in IngUsers, tg \in TgReplies :
        \/ FindCmd(u, tg)
        \/ OnText(u, BTN_BACK, << >>, tg, << >>)
        \/ \E raw \in IngTexts :
            \E api \in [1..TextCalls(u, Strip(raw)) -> IngResponses] :
                \E ord \in Orders(api) : OnText(u, raw, api, tg, ord)
SpecIng == InitIng /\ [][NextIng]_vars

\* The last update was a text taken as the ingredients line.
IngSearch == out.trig = "text" /\ out.preMode = "ing" /\ out.inp \notin Buttons
\* ... its line held tokens and every query of a token succeeded
IngAllOk ==
    /\ IngSearch
    /\ out.info.tokens # << >>
    /\ \A i \in 1..Len(out.info.tokens) : out.info.resps[i].outcome = "ok"
\* the ids of the items in the response to token i
TokenIds(i) ==
    {out.info.resps[i].meals[k].id : k \in 1..Len(out.info.resps[i].meals)} \ {EmptyId}
\* the ids that occur in the response of every token
InEvery == {m \in TokenIds(1) : \A i \in 1..Len(out.info.tokens) : m \in TokenIds(i)}

\* C1: when every per-token query succeeds, the eligible ids are exactly the ids that
\* occur in the response of every token: "no matches" is shown iff there is none,
\* and a result list shows min(limit, number of them) of them and nothing else.
C1_EligibleIsIntersection ==
    IngAllOk =>
        /\ out.info.common = InEvery
        /\ out.tg.sendOk =>
            /\ Len(out.sent) = 1
            /\ out.sent[1].kind = (IF InEvery = {} THEN "no_matches" ELSE "ing_results")
            /\ Range(out.sent[1].items) \subseteq InEvery
            /\ Len(out.sent[1].items) = Min(out.info.limit, Cardinality(InEvery))
            /\ Cardinality(Range(out.sent[1].items)) = Len(out.sent[1].items)
C1_Witness ==
    /\ IngAllOk
    /\ Len(out.info.tokens) = 2
    /\ TokenIds(1) # TokenIds(2)
    /\ InEvery # {}
    /\ out.sent # << >> /\ out.sent[1].kind = "ing_results"

\* C2: the list a successful ingredient search renders is strictly ascending by id
\* and holds the smallest ids of the intersection.
C2_ResultsAscending ==
    (IngAllOk /\ out.sent # << >> /\ out.sent[1].kind = "ing_results") =>
        out.sent[1].items = PySlice(SortedSeq(InEvery), 0, out.info.limit)

ErrorText(outcome) ==
    CASE outcome = "TimeoutException" -> "timeout"
      [] outcome = "RequestError" -> "network"
      [] outcome = "HTTPStatusError" -> "status"
      [] outcome = "ValueError" -> "invalid"
IngFailed ==
    /\ IngSearch
    /\ out.info.tokens # << >>
    /\ \E i \in 1..Len(out.info.tokens) : out.info.resps[i].outcome # "ok"
FirstFailed ==
    CHOOSE i \in 1..Len(out.info.tokens) :
        /\ out.info.resps[i].outcome # "ok"
        /\ \A j \in 1..(i - 1) : out.info.resps[j].outcome = "ok"

\* C3: when a per-token query fails with a transport error the search ends with that
\* error: no query follows it, neither a result list nor "no matches" is rendered, and
\* the one screen sent is that error's message (when Telegram accepts it).
C3_FailFast ==
    IngFailed =>
        /\ Len(out.calls) = FirstFailed
        /\ \A k \in 1..Len(out.sent) : out.sent[k].kind \notin {"ing_results", "no_matches"}
        /\ out.tg.errSendOk =>
            out.sent = << Scr("error", ErrorText(out.info.resps[FirstFailed].outcome), << >>, 0) >>
        /\ ~out.tg.errSendOk => out.sent = << >>
C3_Witness ==
    /\ IngFailed
    /\ FirstFailed = 2
    /\ TokenIds(1) # {}
    /\ out.sent # << >> /\ out.sent[1].kind = "error"

\* the text holds nothing but separators and blanks
NoToken(text) == \A i \in 1..Len(text) : text[i] \in {",", ";", "\n", " "}

\* C4: a line without a token, received while ingredients are awaited, issues no
\* catalog call, is answered with the example, and leaves the mode "ing".
C4_NoTokenReprompts ==
    (IngSearch /\ NoToken(out.inp)) =>
        /\ out.calls = << >>
        /\ mode[out.user] = "ing"
        /\ out.tg.sendOk => out.sent = << Scr("example", "BACK", << >>, 0) >>
        /\ \A k \in 1..Len(out.sent) : out.sent[k].kind \in {"example", "oops"}
C4_Witness ==
    /\ IngSearch /\ NoToken(out.inp) /\ out.inp # << >>
    /\ out.sent # << >> /\ out.sent[1].kind = "example"

\* ---------------------------------------------------------------- paginate
\* paginate applied to a list, a page number and a page size, and then to every
\* page 0 .. total_pages - 1 of the same list.
PgInputs ==
    {[NoPg EXCEPT !.items = items, !.page = page, !.size = size] :
        items \in TextsOver(1..2, MaxItems), page \in (0 - 2)..MaxPage, size \in 1..MaxPageSize}
InitPaginate ==
    /\ mode = [u \in Users |-> "none"]
    /\ settings = [u \in Users |-> << >>]
    /\ history = << >> /\ histSeq = 0 /\ histLog = << >> /\ favs = << >>
    /\ tracked = [u \in Users |-> << >>]
    /\ visible = [u \in Users |-> {}]
    /\ out = NoOut
    /\ pg \in PgInputs
Paginate ==
    /\ ~pg.done
    /\ LET r == paginate(pg.items, pg.page, pg.size)
       IN  pg' = [pg EXCEPT !.done = TRUE, !.slice = r.slice, !.total = r.total,
                            !.pages = [k \in 1..r.total |-> paginate(pg.items, k - 1, pg.size).slice]]
    /\ UNCHANGED << mode, settings, history, histSeq, histLog, favs, tracked, visible, out >>
SpecPaginate == InitPaginate /\ [][Paginate]_vars

\* the page paginate is to slice at: page brought into 0 .. total - 1
ClampedPage ==
    IF pg.page < 0 THEN 0 ELSE IF pg.page > pg.total - 1 THEN pg.total - 1 ELSE pg.page

\* C5: total_pages is max(1, ceil(len / page_size)), and the slice is the items at
\* positions p * page_size .. (p + 1) * page_size - 1 that exist, p being the page
\* clamped into 0 .. total_pages - 1; it has at most page_size items; the empty list
\* gives the empty slice and one page.
C5_PaginateResult ==
    pg.done =>
        LET n == Len(pg.items)
            first == ClampedPage * pg.size
            count == Max(0, Min(n, first + pg.size) - first)
        IN  /\ pg.total >= 1
            /\ (pg.total - 1) * pg.size < Max(n, 1)
            /\ n <= pg.total * pg.size
            /\ Len(pg.slice) = count
            /\ \A k \in 1..count : pg.slice[k] = pg.items[first + k]
            /\ Len(pg.slice) <= pg.size
            /\ n = 0 => (pg.slice = << >> /\ pg.total = 1)
C5_Witness ==
    /\ pg.done
    /\ pg.total >= 2
    /\ pg.page > pg.total - 1
    /\ pg.slice # << >> /\ Len(pg.slice) < pg.size

RECURSIVE Flatten(_)
Flatten(ss) == IF ss = << >> THEN << >> ELSE Head(ss) \o Flatten(Tail(ss))

\* C6: the slices of the pages 0 .. total_pages - 1, one after the other, are the list.
C6_PagesReconstruct == pg.done => Flatten(pg.pages) = pg.items
C6_Witness ==
    /\ pg.done
    /\ Len(pg.pages) >= 2
    /\ Len(pg.pages[Len(pg.pages)]) < pg.size
    /\ \E i, j \in 1..Len(pg.items) : pg.items[i] # pg.items[j]

\* ---------------------------------------------------------------- settings
\* The settings flow of one user, who starts with any stored row.
SetAlphabet == {"0", "1", "5", "7", "-"}
SetUsers == {1}
TgSendOrNot == {TgOk, [TgOk EXCEPT !.sendOk = FALSE]}
InitSettings == InitBot(SetUsers)
NextSettings ==
    \E u \in SetUsers, tg \in TgSendOrNot :
        \/ SettingsCmd(u, tg)
        \/ HistoryCmd(u, tg)
        \/ FavoritesCmd(u, tg)
        \/ \E raw \in TextsOver(SetAlphabet, MaxDigits) \cup {BTN_BACK} :
            OnText(u, raw, << >>, tg, << >>)
SpecSettings == InitSettings /\ [][NextSettings]_vars

\* C7: wherever a handler reads maxResults, the value shown or used is in 1..10:
\* the number of the settings prompt, the limit of the history and favorites lists,
\* and the cap of the name and ingredient results.
C7_ReadsInRange ==
    /\ \A k \in 1..Len(out.sent) :
        out.sent[k].kind \in {"settings", "history", "history_empty", "favs", "favs_empty"}
            => (MAX_LO <= out.sent[k].val /\ out.sent[k].val <= MAX_HI)
    /\ (out.trig = "text" /\ out.preMode \in {"name", "ing"} /\ out.inp \notin Buttons
        /\ "limit" \in DOMAIN out.info)
            => (MAX_LO <= out.info.limit /\ out.info.limit <= MAX_HI)

\* The last update was a text taken as the new maxResults.
SetMaxInput == out.trig = "text" /\ out.preMode = "set_max" /\ out.inp \notin Buttons

\* C8: a text received while the number is awaited that is no integer, or an integer
\* outside 1..10, leaves the stored row and the mode "set_max" and is answered with
\* the prompt; an integer in 1..10 is stored and the mode is cleared.
C8_SetMaxInput ==
    SetMaxInput =>
        LET p == ParseInt(out.inp)
        IN  IF p.ok /\ 1 <= p.val /\ p.val <= 10
            THEN /\ settings[out.user] = << p.val >>
                 /\ mode[out.user] = "none"
                 /\ out.tg.sendOk => out.sent = << Scr("saved", "MENU", << >>, p.val) >>
            ELSE /\ settings[out.user] = out.preRow
                 /\ out.preRow # << >>
                 /\ mode[out.user] = "set_max"
                 /\ out.tg.sendOk => out.sent = << Scr("set_max_retry", "BACK", << >>, 0) >>
C8_Witness ==
    /\ SetMaxInput
    /\ out.inp = << "7" >>
    /\ out.preRow = << 15 >>
    /\ settings[out.user] = << 7 >>
    /\ mode[out.user] = "none"

\* ----------------------------------------------------------------- history
\* Two users view meals; the database file already holds HistPrefill views of user 1.
\* At most MaxInserts further views are recorded.
HistUsers == {1, 2}
Prefill == [i \in 1..HistPrefill |-> [user |-> 1, meal |-> 1 + (i % NumMeals)]]
InitHistory ==
    /\ mode = [u \in Users |-> "none"]
    /\ settings = [u \in Users |-> << >>]
    /\ history = [i \in 1..HistPrefill |->
                    [id |-> i, user |-> Prefill[i].user, meal |-> Prefill[i].meal,
                     name |-> NameOf(Prefill[i].meal)]]
    /\ histSeq = HistPrefill
    /\ histLog = Prefill
    /\ favs = << >>
    /\ tracked = [u \in Users |-> << >>]
    /\ visible = [u \in Users |-> {}]
    /\ out = NoOut
    /\ pg = NoPg
\* Telegram accepts every request but the photo's, whose failure send_meal ignores.
TgNoPhoto == [TgOk EXCEPT !.photoOk = FALSE]
NextHistory ==
    \E u \in HistUsers :
        \/ /\ histSeq < HistPrefill + MaxInserts
           /\ Cb(u, << "meal", 1 >>, << Found(<< 1 >>) >>, TgNoPhoto)
        \/ /\ histSeq < HistPrefill + MaxInserts
           /\ RandomCmd(u, << Found(<< NumMeals >>) >>, TgNoPhoto)
        \/ HistoryCmd(u, TgOk)
SpecHistory == InitHistory /\ [][NextHistory]_vars

\* The meals of the insertions of user u, oldest first.
Inserted(u) == LET mine == RowsOf(histLog, u) IN [i \in 1..Len(mine) |-> mine[i].meal]
Stored(u) == LET mine == RowsOf(history, u) IN [i \in 1..Len(mine) |-> mine[i].meal]

\* C9: each user's stored history holds at most 200 entries, they are that user's
\* 200 most recent insertions (all of them when there were fewer), and get_history
\* returns them most recent first.
C9_HistoryKeepsLast200 ==
    \A u \in Users :
        /\ Len(Stored(u)) <= 200
        /\ Stored(u) = LastN(Inserted(u), 200)
        /\ \A limit \in {1, 10, 200, 201} :
            LET got == DB_get_history(history, u, limit)
                recent == Reverse(LastN(Inserted(u), Min(limit, 200)))
            IN  [i \in 1..Len(got) |-> got[i].meal] = recent
        /\ (out.trig = "history" /\ out.user = u /\ out.exc = "none")
            => \E k \in 1..10 :
                \/ out.sent = << Scr("history", "", Reverse(LastN(Inserted(u), k)), k) >>
                \/ Inserted(u) = << >> /\ out.sent = << Scr("history_empty", "MENU", << >>, k) >>
\* user 1 has made more than 200 views, the last one just now, and user 2 some
C9_Witness ==
    /\ Len(Inserted(1)) > 200
    /\ Len(Stored(1)) = 200
    /\ Inserted(2) # << >>
    /\ out.trig \in {"cb", "random"} /\ out.user = 1
    /\ history[Len(history)].user = 1

\* --------------------------------------------------------------- favorites
FavUsers == {1, 2}
TgFav ==
    {TgOk, [TgOk EXCEPT !.answerOk = FALSE], [TgOk EXCEPT !.errSendOk = FALSE]}
FavResponses(m) == {Found(<< m >>), Found(<< >>), Failure("TimeoutException")}
\* the ids of the toggle buttons that user u presses
FavMeals(u) == IF u = 1 THEN Meals \cup {EmptyId} ELSE {1}
InitFav == InitBot({})
NextFav ==
    \E u \in FavUsers, tg \in TgFav :
        \E m \in FavMeals(u) :
            \E resp \in FavResponses(m) : Cb(u, << "fav", m >>, << resp >>, tg)
SpecFav == InitFav /\ [][NextFav]_vars

\* The last update was a favorite toggle that was carried out: the query was
\* answered and the lookup, if there was one, succeeded.
Toggled == out.trig = "cb" /\ StartsWith(out.inp, << "fav" >>) /\ "was" \in DOMAIN out.info
IsFavorite(rows, u, i) == \E k \in 1..Len(rows) : rows[k].user = u /\ rows[k].meal = i

\* C10: after a toggle that adds the pair is a favorite, after one that removes it
\* is not; and two toggles of the same pair in a row leave its membership as it was
\* before the first.
C10_ToggleTwice ==
    /\ [](Toggled => (IsFavorite(favs, out.user, out.inp[2]) = ~out.info.was))
    /\ [][(Toggled /\ Toggled' /\ out'.user = out.user /\ out'.inp = out.inp)
            => (IsFavorite(favs', out.user, out.inp[2]) = out.info.was)]_vars
\* a toggle has removed a pair that an earlier toggle had added
C10_Witness ==
    /\ Toggled
    /\ out.info.was
    /\ ~IsFavorite(favs, out.user, out.inp[2])
    /\ \E k \in 1..Len(favs) : favs[k].user # out.user

\* ------------------------------------------------------------- the whole bot
\* Every handler, for one user with a fresh database, a catalog that answers and a
\* Telegram that accepts every request; at most MaxInserts views are recorded.
BotUsers == {1}
BotTexts == {BTN_BACK, << "7" >>, << "a" >>}
BotData ==
    { << "menu" >>, << "meal", 1 >>, << "fav", 1 >>, << "unfav", 1 >>,
      << "confirm", "history", "yes" >>, << "confirm", "favorites", "no" >>,
      << "area", "page", << "1" >> >>, << "other" >> }
Init == InitBot({})
Next ==
    \E u \in BotUsers :
        \/ Start(u, TgOk)
        \/ Help(u, TgOk)
        \/ SettingsCmd(u, TgOk)
        \/ HistoryCmd(u, TgOk)
        \/ FavoritesCmd(u, TgOk)
        \/ ClearHistoryCmd(u, TgOk)
        \/ ClearFavoritesCmd(u, TgOk)
        \/ histSeq < MaxInserts /\ RandomCmd(u, << Found(<< 1 >>) >>, TgOk)
        \/ NameCmd(u, TgOk)
        \/ FindCmd(u, TgOk)
        \/ CuisinesCmd(u, << Found(<< 1, 2 >>) >>, TgOk)
        \/ CategoriesCmd(u, << Found(<< 1, 2 >>) >>, TgOk)
        \/ /\ histSeq < MaxInserts
           /\ \E raw \in BotTexts :
                \E api \in [1..TextCalls(u, Strip(raw)) -> {Found(<< 1 >>), Found(<< 1, 2 >>)}] :
                    \E ord \in Orders(api) : OnText(u, raw, api, TgOk, ord)
        \/ /\ histSeq < MaxInserts
           /\ \E data \in BotData :
                \E api \in [1..DataCalls(data) -> {Found(<< 1 >>)}] : Cb(u, data, api, TgOk)
Spec == Init /\ [][Next]_vars

\* ------------------------------------------------------ the favorites table
\* The favorites table under the toggle callback and under DB.add_fav called for
\* any pair, a favorite already or not.
AddFav(u, m, name) ==
    /\ favs' = DB_add_fav(favs, u, m, name)
    /\ out' = [NoOut EXCEPT !.user = u, !.trig = "add_fav", !.inp = << m >>,
                           !.info = [name |-> name,
                                     old |-> LET Same(e) == e.user = u /\ e.meal = m
                                             IN  SelectSeq(favs, Same)]]
    /\ UNCHANGED << mode, settings, history, histSeq, histLog, tracked, visible, pg >>
InitFavStore == InitBot({})
NextFavStore ==
    \E u \in FavUsers :
        \E m \in FavMeals(u) \ {EmptyId} :
            \/ \E name \in {NameOf(m), PLACEHOLDER} : AddFav(u, m, name)
            \/ Cb(u, << "fav", m >>, << Found(<< m >>) >>, TgOk)
SpecFavStore == InitFavStore /\ [][NextFavStore]_vars

\* C11: the favorites hold at most one entry per (user, item); add_fav of a pair
\* that is a favorite leaves one entry for it, holding the new name.
C11_OneEntryPerPair ==
    /\ \A i, j \in 1..Len(favs) :
        (favs[i].user = favs[j].user /\ favs[i].meal = favs[j].meal) => i = j
    /\ out.trig = "add_fav" =>
        \E i \in 1..Len(favs) :
            /\ favs[i] = [user |-> out.user, meal |-> out.inp[1], name |-> out.info.name]
            /\ \A j \in 1..Len(favs) :
                (favs[j].user = out.user /\ favs[j].meal = out.inp[1]) => j = i
\* add_fav has been called for a favorite stored under another name
C11_Witness ==
    /\ out.trig = "add_fav"
    /\ Len(out.info.old) = 1
    /\ out.info.old[1].name # out.info.name
    /\ Len(favs) > 1

\* ------------------------------------------------- the clear confirmations
\* Two users collect views and favorites, ask to clear either and answer the
\* confirmation; at most MaxInserts views are recorded.
ClearUsers == {1, 2}
ConfirmData == {<< "confirm", kind, answer >> : kind \in {"history", "favorites"},
                                               answer \in {"yes", "no"}}
InitClear == InitBot({})
NextClear ==
    \E u \in ClearUsers :
        \/ histSeq < MaxInserts /\ RandomCmd(u, << Found(<< 1 >>) >>, TgNoPhoto)
        \/ Cb(u, << "fav", 1 >>, << Found(<< 1 >>) >>, TgOk)
        \/ ClearHistoryCmd(u, TgOk)
        \/ ClearFavoritesCmd(u, TgOk)
        \/ \E data \in ConfirmData : Cb(u, data, << >>, TgOk)
SpecClear == InitClear /\ [][NextClear]_vars

\* The last update was the answer to a clear confirmation.
Confirmed == out.trig = "cb" /\ StartsWith(out.inp, << "confirm" >>) /\ out.tg.answerOk

\* C12: the clear commands and the answer "no" leave the history and the favorites
\* as they are; "yes" to clear-favorites leaves the user without favorites and "yes"
\* to clear-history without history, the other table and the other users' rows
\* staying as they are.
C12_ClearConfirmation ==
    [][/\ out'.trig \in {"clearhistory", "clearfavorites"} => (favs' = favs /\ history' = history)
       /\ (Confirmed' /\ out'.inp[3] = "no") => (favs' = favs /\ history' = history)
       /\ (Confirmed' /\ out'.inp = << "confirm", "favorites", "yes" >>) =>
            /\ RowsOf(favs', out'.user) = << >>
            /\ \A v \in Users \ {out'.user} : RowsOf(favs', v) = RowsOf(favs, v)
            /\ history' = history
       /\ (Confirmed' /\ out'.inp = << "confirm", "history", "yes" >>) =>
            /\ RowsOf(history', out'.user) = << >>
            /\ \A v \in Users \ {out'.user} : RowsOf(history', v) = RowsOf(history, v)
            /\ favs' = favs
      ]_vars
\* "yes" has cleared the favorites of a user who had some, views and another user's
\* favorites being stored
C12_Witness ==
    /\ Confirmed
    /\ out.inp = << "confirm", "favorites", "yes" >>
    /\ out.info.favs > 0
    /\ out.info.history > 0
    /\ RowsOf(history, out.user) # << >>
    /\ favs # << >>

\* ------------------------------------------------- modes of the whole bot
\* C13: after the answer to a clear confirmation has been handled, the mode of the
\* user is "none".
C13_ConfirmEndsIdle == (Confirmed /\ out.exc = "none" /\ out.sent # << >>) => mode[out.user] = "none"

\* The last update has rendered the detail of a meal.
DetailRendered ==
    /\ out.trig \in {"random", "text", "cb"}
    /\ out.sent # << >>
    /\ out.sent[Len(out.sent)].kind = "detail"

\* C14: after /random, the Random button or a meal callback has rendered a detail,
\* the mode of the user is "none".
C14_DetailEndsIdle == DetailRendered => mode[out.user] = "none"

\* ------------------------------------------------------------ the screens
\* One user's chat: screens of one message and details of two, with sends and
\* deletes that Telegram may refuse.  At most MaxInserts views are recorded and no
\* update is handled once more than MaxVisible messages of the bot are in the chat.
UiUsers == {1}
TgDeletes(u) ==
    {[TgOk EXCEPT !.delFail = D, !.userDelOk = b] : D \in SUBSET Range(tracked[u]), b \in BOOLEAN}
TgSends == {[TgOk EXCEPT !.sendOk = a, !.errSendOk = b, !.photoOk = c] : a, b, c \in BOOLEAN}
Render(u, tg) ==
    /\ Cardinality(visible[u]) < MaxVisible
    /\ \/ Help(u, tg)
       \/ /\ histSeq < MaxInserts
          /\ \E resp \in {Found(<< 1 >>), Failure("TimeoutException")} :
                RandomCmd(u, << resp >>, tg)
       \/ histSeq < MaxInserts /\ Cb(u, << "meal", 1 >>, << Found(<< 1 >>) >>, tg)
       \/ Cb(u, << "menu" >>, << >>, tg)
InitUi == InitBot({})
NextUi == \E u \in UiUsers : \E tg \in TgDeletes(u) \cup TgSends : Render(u, tg)
SpecUi == InitUi /\ [][NextUi]_vars
\* ... where every delete succeeds
NextScreen == \E u \in UiUsers, tg \in TgSends : Render(u, tg)
SpecScreen == InitUi /\ [][NextScreen]_vars

\* The ids of the messages of the last screen sent: the text's, after the photo's if
\* the detail has one.
NewScreenIds(o) ==
    LET n == Len(o.sent)
    IN  IF n >= 2 /\ o.sent[n].kind = "detail" /\ o.sent[n - 1].kind = "photo"
        THEN << o.ids[n - 1], o.ids[n] >>
        ELSE << o.ids[n] >>
\* The update has completed a render.
RenderDone(o) == o.sent # << >> /\ o.sent[Len(o.sent)].kind # "photo"

\* C15: after a render the tracked list is the ids of the new screen's messages in
\* send order, every id tracked before and not kept has had its delete attempted
\* (it is gone unless Telegram refused), and the list holds at most 30 ids.
C15_TrackedIsNewScreen ==
    [][RenderDone(out') =>
        LET u == out'.user
        IN  /\ tracked'[u] = NewScreenIds(out')
            /\ Len(tracked'[u]) <= 30
            /\ Range(tracked'[u]) \cap visible[u] = {}
            /\ \A k \in 1..Len(tracked'[u]) - 1 : tracked'[u][k] < tracked'[u][k + 1]
            /\ \A id \in Range(tracked[u]) \ Range(tracked'[u]) :
                id \in visible'[u] => id \in out'.tg.delFail
      ]_vars
\* a detail with its photo has replaced a tracked screen
C15_Witness ==
    /\ RenderDone(out)
    /\ Len(tracked[out.user]) = 2
    /\ out.ids = tracked[out.user]
    /\ visible[out.user] = Range(tracked[out.user])
    /\ 1 \notin visible[out.user]

\* C16: when every delete succeeds, the messages of the bot in the chat are the
\* messages of one screen, at most two, and all of them are tracked.
C16_OneScreenVisible ==
    \A u \in Users :
        /\ visible[u] \subseteq Range(tracked[u])
        /\ Cardinality(visible[u]) <= 2

\* Telegram refuses a delete of this update: of a message tracked before it, or of
\* the user's message.
DeleteRefused(o) ==
    \/ o.tg.delFail \cap Range(tracked[o.user]) # {}
    \/ ~o.tg.userDelOk /\ o.userMsg # "none"

\* C17: a refused delete does not abort the render and does not reach the user:
\* the screen is sent and tracked, the other tracked messages are deleted, no
\* exception leaves the handler, and an error screen is sent only for a failed
\* catalog call.
C17_DeleteFailureSwallowed ==
    [][(DeleteRefused(out') /\ out'.tg.sendOk) =>
        LET u == out'.user
        IN  /\ out'.exc = "none"
            /\ RenderDone(out')
            /\ tracked'[u] = NewScreenIds(out')
            /\ Range(tracked'[u]) \subseteq visible'[u]
            /\ \A id \in Range(tracked[u]) \ Range(tracked'[u]) :
                id \in visible'[u] <=> id \in out'.tg.delFail
            /\ \A k \in 1..Len(out'.sent) :
                /\ out'.sent[k].kind # "oops"
                /\ out'.sent[k].kind = "error" =>
                    \E c \in 1..Len(out'.calls) : out'.calls[c].raised # "none"
      ]_vars
\* the delete of one of two tracked messages was refused, and the user's too
C17_Witness ==
    /\ out.tg.delFail # {}
    /\ ~out.tg.userDelOk
    /\ out.userMsg = "present"
    /\ RenderDone(out)
    /\ out.tg.delFail \subseteq visible[out.user]
    /\ out.tg.delFail \cap Range(tracked[out.user]) = {}
    /\ Cardinality(visible[out.user]) = 2

\* ----------------------------------------------------------- exceptions
\* C18: no exception leaves the handler of an update: a failed catalog call is
\* answered with the message of its UserError, any other failure with the fallback.
C18_NoExceptionEscapes ==
    /\ out.exc = "none"
    /\ \A c \in 1..Len(out.calls) :
        out.calls[c].raised # "none" =>
            (out.sent # << >> /\ out.sent[Len(out.sent)] = Scr("error", out.calls[c].raised, << >>, 0))

\* -------------------------------------------------------------- Back
\* C19: in the modes "name", "ing" and "set_max" the Back button sets the mode to
\* "none", issues no catalog call and leaves settings, history and favorites alone.
C19_BackDiscards ==
    [][(out'.trig = "text" /\ out'.inp = BTN_BACK /\ out'.preMode \in {"name", "ing", "set_max"}) =>
        /\ mode'[out'.user] = "none"
        /\ out'.calls = << >>
        /\ settings' = settings
        /\ history' = history
        /\ favs' = favs
      ]_vars
\* Back has ended the wait for ingredients of a user without a settings row
C19_Witness ==
    /\ out.trig = "text"
    /\ out.inp = BTN_BACK
    /\ out.preMode = "ing"
    /\ mode[out.user] = "none"
    /\ settings[out.user] = << >>
    /\ out.sent = << Scr("ok", "MENU", << >>, 0) >>

\* ------------------------------------------------------- the name search
\* One user, with any stored row, asks for a search by name and sends a name; the
\* catalog answers with up to MaxItems records, in an order that is not sorted.
NameUsers == {1}
NameHits(n) == Found([i \in 1..n |-> 1 + ((n - i) % NumMeals)])
NameResponses ==
    {NameHits(n) : n \in 0..MaxItems} \cup {Ragged}
    \cup {Failure("TimeoutException"), Failure("ValueError")}
InitName == InitBot(NameUsers)
NextName ==
    \E u \in NameUsers, tg \in TgReplies :
        \/ NameCmd(u, tg)
        \/ OnText(u, BTN_BACK, << >>, tg, << >>)
        \/ \E api \in [1..TextCalls(u, << "a" >>) -> NameResponses] :
            OnText(u, << " ", "a" >>, api, tg, << >>)
SpecName == InitName /\ [][NextName]_vars

\* The last update was a text taken as the name to search, and the search succeeded.
NameSearched ==
    /\ out.trig = "text" /\ out.preMode = "name" /\ out.inp \notin Buttons
    /\ Len(out.calls) = 1
    /\ out.calls[1] = [op |-> "search_name", arg |-> out.inp, raised |-> "none"]
\* maxResults as the claim reads it: the stored value (5 when there is no row), clamped
CappedMax(row) ==
    LET stored == IF row = << >> THEN 5 ELSE row[1]
    IN  IF stored < 1 THEN 1 ELSE IF stored > 10 THEN 10 ELSE stored

\* C20: a name search that succeeds sets the mode to "none" and renders "no results"
\* for an empty result, else the first min(number of results, maxResults) records in
\* the catalog's order.
C20_NameResults ==
    NameSearched =>
        LET found == out.info.meals
            cap == Min(Len(found), CappedMax(out.preRow))
        IN  /\ mode[out.user] = "none"
            /\ out.tg.sendOk =>
                IF found = << >>
                THEN out.sent = << Scr("no_results", "MENU", << >>, 0) >>
                ELSE out.sent = << Scr("name_results", "", SubSeq(found, 1, cap), 0) >>
\* records found in an order that is not ascending, and the first one alone listed
C20_Witness ==
    /\ NameSearched
    /\ Len(out.info.meals) = 2
    /\ out.info.meals[1] > out.info.meals[2]
    /\ out.sent = << Scr("name_results", "", << out.info.meals[1] >>, 0) >>

\* --------------------------------------------------- the paginated lists
\* One user who opens the list of areas or of categories and then presses the
\* buttons of the screen in front of them; the catalog's answer may differ from
\* one render to the next.
MaxListLen == 45
\* Lists of no item, of one full page, of one item more, and of MaxListLen items
ListLens == {0, PAGE_SIZE, PAGE_SIZE + 1, MaxListLen}
UpTo(n) == [i \in 1..n |-> i]
PageResponses == {Found(UpTo(n)) : n \in ListLens} \cup {Failure("TimeoutException")}
PageUsers == {1}
NavKinds == {"area", "cat", "area_meals", "cat_meals"}
\* list_kb / meals_kb: the callback data the buttons of the last update's screen
\* carry (items, Prev, Next and Back; the meal buttons and Menu aside)
NavData(o) ==
    IF o.sent = << >> \/ o.sent[Len(o.sent)].kind \notin NavKinds THEN {}
    ELSE LET s == o.sent[Len(o.sent)]
             targets == Range(s.prev) \cup Range(s.next)
         IN  IF s.kind \in {"area", "cat"}
             THEN {<< s.kind, "sel", s.items[i] >> : i \in 1..Len(s.items)}
                  \cup {<< s.kind, "page", Str(t) >> : t \in targets}
             ELSE LET kind == IF s.kind = "area_meals" THEN "area" ELSE "cat"
                      value == o.calls[Len(o.calls)].arg[1]
                  IN  {<< s.kind, "page", value, Str(t) >> : t \in targets}
                      \cup {<< kind, "page", Str(0) >>}
InitPages == InitBot({})
NextPages ==
    \E u \in PageUsers, api \in [1..1 -> PageResponses] :
        \/ CuisinesCmd(u, api, TgOk)
        \/ CategoriesCmd(u, api, TgOk)
        \/ \E data \in NavData(out) : Cb(u, data, api, TgOk)
SpecPages == InitPages /\ [][NextPages]_vars

\* The last update rendered a page of a list.
PageRendered ==
    /\ out.trig \in {"cuisines", "categories", "cb"}
    /\ out.sent # << >>
    /\ out.sent[1].kind \in NavKinds
\* The number of pages of a list of n items, and the page shown when page is asked for
PagesOf(n) == IF n = 0 THEN 1 ELSE (n + PAGE_SIZE - 1) \div PAGE_SIZE
ShownPage(n, page) == Max(0, Min(page, PagesOf(n) - 1))

\* C21: a rendered page of a list shows the items of the clamped page p of the list
\* just fetched, with a Next button to p + 1 iff p is not the last page and a Prev
\* button to p - 1 iff p is not the first page.
C21_PageNavigation ==
    PageRendered =>
        LET s == out.sent[1]
            all == out.info.all
            n == Len(all)
            p == ShownPage(n, out.info.page)
        IN  /\ s.items = SubSeq(all, p * PAGE_SIZE + 1, Min(n, (p + 1) * PAGE_SIZE))
            /\ s.next = (IF p < PagesOf(n) - 1 THEN << p + 1 >> ELSE << >>)
            /\ s.prev = (IF p > 0 THEN << p - 1 >> ELSE << >>)
\* The part of C21 that the code keeps: the items are those of the clamped page, and
\* the buttons are as claimed whenever the page asked for exists.
C21_ItemsOfClampedPage ==
    PageRendered =>
        LET s == out.sent[1]
            all == out.info.all
            n == Len(all)
            p == ShownPage(n, out.info.page)
        IN  /\ s.items = SubSeq(all, p * PAGE_SIZE + 1, Min(n, (p + 1) * PAGE_SIZE))
            /\ p = out.info.page =>
                /\ s.next = (IF p < PagesOf(n) - 1 THEN << p + 1 >> ELSE << >>)
                /\ s.prev = (IF p > 0 THEN << p - 1 >> ELSE << >>)
\* The example of the claim: Next from the second page of 45 items shows items 41-45
C21_Example ==
    /\ PageRendered
    /\ Len(out.info.all) = MaxListLen /\ out.info.page = 2
    /\ Len(out.sent[1].items) = MaxListLen - 2 * PAGE_SIZE
    /\ out.sent[1].next = << >> /\ out.sent[1].prev = << 1 >>

\* ------------------------------------------------------------- two users
\* Application.builder().token(token).build() leaves concurrent_updates off and no
\* handler is registered with block=False: the application handles one update at
\* a time, to completion, so the updates of two users interleave as whole handlers.
TwoUsers == {1, 2}
TwoInserts == 2
\* User 1 sends every update below; user 2 a text, /random and the favorite toggle.
TwoResponses(u) == IF u = 1 THEN {Found(<< 1 >>), Failure("TimeoutException")} ELSE {Found(<< 1 >>)}
TwoCmds(u) == IF u = 1 THEN {"name", "history"} ELSE {}
TwoCbData(u) ==
    IF u = 1 THEN {<< "fav", 1 >>, << "confirm", "history", "yes" >>} ELSE {<< "fav", 1 >>}
InitTwo == InitBot({})
NextTwo ==
    \E u \in TwoUsers :
        \/ /\ "name" \in TwoCmds(u)
           /\ NameCmd(u, TgNoPhoto)
        \/ /\ "history" \in TwoCmds(u)
           /\ HistoryCmd(u, TgNoPhoto)
        \/ /\ histSeq < TwoInserts
           /\ RandomCmd(u, << Found(<< 1 >>) >>, TgNoPhoto)
        \/ \E api \in [1..TextCalls(u, << "a" >>) -> TwoResponses(u)] :
                OnText(u, << "a" >>, api, TgNoPhoto, << >>)
        \/ \E data \in TwoCbData(u) :
                Cb(u, data, [i \in 1..DataCalls(data) |-> Found(<< 1 >>)], TgNoPhoto)
SpecTwo == InitTwo /\ [][NextTwo]_vars

\* The updates of NextTwo: the trigger, its input and the catalog's answers
TwoTrigs(u) ==
    {[trig |-> k, inp |-> << >>, api |-> << >>] : k \in TwoCmds(u)}
    \cup {[trig |-> "random", inp |-> << >>, api |-> << Found(<< 1 >>) >>]}
    \cup {[trig |-> "text", inp |-> << "a" >>, api |-> api] :
              api \in [1..TextCalls(u, << "a" >>) -> TwoResponses(u)]}
    \cup {[trig |-> "cb", inp |-> data, api |-> [i \in 1..DataCalls(data) |-> Found(<< 1 >>)]] :
              data \in TwoCbData(u)}
\* The handler of update t of user u, run on the local state st
TwoHandle(st, u, t) ==
    CASE t.trig = "name" -> name_cmd(Res(st), TgNoPhoto)
      [] t.trig = "history" -> history_cmd(Res(st), u, TgNoPhoto)
      [] t.trig = "random" -> random_cmd(Res(st), u, t.api, TgNoPhoto)
      [] t.trig = "text" -> on_text(Res(st), u, t.inp, t.api, TgNoPhoto, << >>)
      [] t.trig = "cb" -> cb(ResCb(st), u, t.inp, t.api, TgNoPhoto)
\* This step is the handling of update t of user u.
TwoAct(u, t) == Apply(u, t.trig, t.inp, TgNoPhoto, TwoHandle(Local(u), u, t))
\* What a user has: session mode, tracked list, settings row, history and favorites
PairsOf(rows, u) ==
    LET mine == RowsOf(rows, u)
    IN  [i \in 1..Len(mine) |-> [meal |-> mine[i].meal, name |-> mine[i].name]]
ViewOf(st, u) ==
    [mode |-> st.mode, tracked |-> st.ui.tracked, settings |-> st.row,
     history |-> PairsOf(st.history, u), favs |-> PairsOf(st.favs, u)]
View(u) == ViewOf(Local(u), u)
\* The local state of user u had no other user ever used the bot: the tables hold
\* the rows of u only, and the history's id counter is at the last of them.
Alone(u) ==
    LET mine == RowsOf(history, u)
    IN  [Local(u) EXCEPT !.history = mine,
                         !.histSeq = IF mine = << >> THEN 0 ELSE mine[Len(mine)].id,
                         !.histLog = RowsOf(histLog, u),
                         !.favs = RowsOf(favs, u)]

\* C22: the handling of an update of user u leaves u with what the same handler
\* leaves when run on u's data alone, sends the same screens and issues the same
\* calls, and leaves what every other user has unchanged; by induction over the
\* updates, every interleaving of two users' updates leaves each with what their
\* own updates alone leave.
C22_Isolation ==
    [][\A u \in TwoUsers : \A t \in TwoTrigs(u) :
        (out'.user = u /\ out'.trig = t.trig /\ out'.inp = t.inp /\ TwoAct(u, t)) =>
            LET alone == TwoHandle(Alone(u), u, t)
            IN  /\ View(u)' = ViewOf(alone.st, u)
                /\ out'.sent = alone.sent
                /\ out'.calls = alone.calls
                /\ out'.exc = alone.exc
                /\ \A v \in TwoUsers \ {u} : View(v)' = View(v)]_vars
\* /random of user 2 has just added to their history while user 1 awaits a name
\* and has a tracked screen, a settings row, a history and a favorite.
C22_Witness ==
    /\ out.user = 2 /\ out.trig = "random"
    /\ View(2).history # << >>
    /\ View(1).mode = "name"
    /\ View(1).tracked # << >>
    /\ View(1).settings # << >>
    /\ View(1).history # << >>
    /\ View(1).favs # << >>

\* ------------------------------------------------------- the session mode
\* One user sends the commands and the texts that write the mode, with the other
\* kinds of update in between; the catalog and Telegram may fail.
ModeUsers == {1}
ModeTexts == {BTN_BACK, BTN_ING, BTN_SETTINGS, << "7" >>, << "x" >>}
ModeResponses == {Found(<< 1 >>), Found(<< >>), Failure("TimeoutException")}
ModeData == {<< "menu" >>, << "fav", 1 >>, << "confirm", "history", "yes" >>, << "other" >>}
InitModes == InitBot({})
NextModes ==
    \E u \in ModeUsers, tg \in TgSend :
        \/ Start(u, tg)
        \/ SettingsCmd(u, tg)
        \/ NameCmd(u, tg)
        \/ FindCmd(u, tg)
        \/ \E raw \in ModeTexts :
            \E api \in [1..TextCalls(u, Strip(raw)) -> ModeResponses] :
                \E ord \in Orders(api) : OnText(u, raw, api, tg, ord)
        \/ \E data \in ModeData :
            \E api \in [1..DataCalls(data) -> ModeResponses] : Cb(u, data, api, tg)
SpecModes == InitModes /\ [][NextModes]_vars

\* C23: the session mode of every user is absent ("none"), "name", "ing" or
\* "set_max", whatever the updates handled so far and however they ended.
C23_ModeValues == \A u \in Users : mode[u] \in {"none", "name", "ing", "set_max"}
\* An ingredient search failed in the catalog, the reply about it failed too, and
\* the mode is still "ing".
C23_Witness ==
    /\ out.trig = "text" /\ out.preMode = "ing"
    /\ \E i \in 1..Len(out.calls) : out.calls[i].raised # "none"
    /\ out.exc = "telegram"
    /\ mode[out.user] = "ing"

\* ------------------------------------------------------- the detail views
\* One user asks for a random meal or selects meal 1 of a list; the catalog finds a
\* meal (named or not, with an id or not), finds none, or fails; Telegram may
\* refuse the photo or the text.
DetailUsers == {1}
DetailResponses ==
    {Found(<< 1 >>), Found(<< NumMeals >>), Found(<< >>), Failure("TimeoutException")}
    \cup {[outcome |-> "ok", meals |-> << [id |-> m, name |-> "", photo |-> FALSE] >>]
            : m \in {EmptyId, 1}}
TgDetail == {TgOk, TgNoPhoto, [TgOk EXCEPT !.sendOk = FALSE]}
InitDetail == InitBot({})
NextDetail ==
    \E u \in DetailUsers, api \in [1..1 -> DetailResponses], tg \in TgDetail :
        \/ /\ histSeq < MaxInserts
           /\ RandomCmd(u, api, tg)
        \/ /\ histSeq < MaxInserts
           /\ Cb(u, << "meal", 1 >>, api, tg)
SpecDetail == InitDetail /\ [][NextDetail]_vars

\* The update that out records was /random or a meal selection.
DetailAsked(o) == o.trig = "random" \/ (o.trig = "cb" /\ o.inp[1] = "meal")
\* The detail screens among the screens sent
DetailsSent(o) == {i \in 1..Len(o.sent) : o.sent[i].kind = "detail"}

\* C24: a /random or a meal selection that renders the detail of a meal with an id
\* appends one entry (id, name) to the user's history, which get_history then
\* returns first; one that renders no detail appends none.
C24_HistoryOnDetail ==
    [][DetailAsked(out') =>
        LET u == out'.user
            before == PairsOf(history, u)
            after == PairsOf(history', u)
            shown == DetailsSent(out')
        IN  /\ (shown # {} /\ \A i \in shown : out'.sent[i].items # << EmptyId >>) =>
                /\ Len(after) = Len(before) + 1
                /\ SubSeq(after, 1, Len(before)) = before
                /\ after[Len(after)].meal \in {out'.sent[i].items[1] : i \in shown}
                /\ DB_get_history(history', u, 1) = << after[Len(after)] >>
            /\ shown = {} => after = before]_vars
\* The part of C24 that the code keeps: a rendered detail appends its entry, and
\* nothing is appended when the catalog finds no meal or fails.
C24_HistoryOnLookup ==
    [][DetailAsked(out') =>
        LET u == out'.user
            before == PairsOf(history, u)
            after == PairsOf(history', u)
            shown == DetailsSent(out')
        IN  /\ (shown # {} /\ \A i \in shown : out'.sent[i].items # << EmptyId >>) =>
                /\ Len(after) = Len(before) + 1
                /\ SubSeq(after, 1, Len(before)) = before
                /\ after[Len(after)].meal \in {out'.sent[i].items[1] : i \in shown}
                /\ DB_get_history(history', u, 1) = << after[Len(after)] >>
            /\ (out'.calls[1].raised # "none" \/ out'.sent[1].kind \in {"nothing_found", "load_failed"})
                => after = before]_vars

\* ---------------------------------------------- the frame of the toggle
\* The update that out records was a favorite toggle "fav:<id>".
ToggleAsked(o) == o.trig = "cb" /\ StartsWith(o.inp, << "fav" >>)
\* The favorites other than the pair (u, m)
OtherFavs(rows, u, m) == LET Other(r) == ~(r.user = u /\ r.meal = m) IN SelectSeq(rows, Other)
\* A catalog call of the update failed.
CallFailed(o) == \E i \in 1..Len(o.calls) : o.calls[i].raised # "none"

\* C25: a favorite toggle sends no message, deletes none and leaves the tracked
\* lists, the modes, the settings, the history and every other favorite as they were.
C25_ToggleFrame ==
    [][ToggleAsked(out') =>
        /\ out'.sent = << >>
        /\ visible' = visible
        /\ tracked' = tracked
        /\ mode' = mode /\ settings' = settings /\ history' = history
        /\ OtherFavs(favs', out'.user, out'.inp[2]) = OtherFavs(favs, out'.user, out'.inp[2])]_vars
\* C25 as amended: so it is unless the lookup of the toggle fails; then the modes,
\* the settings, the history and the favorites are as they were, and the failure's
\* message, if Telegram accepts it, is the new screen.
C25_ToggleFrameUnlessFailed ==
    [][ToggleAsked(out') =>
        /\ mode' = mode /\ settings' = settings /\ history' = history
        /\ OtherFavs(favs', out'.user, out'.inp[2]) = OtherFavs(favs, out'.user, out'.inp[2])
        /\ ~CallFailed(out') =>
            /\ out'.sent = << >>
            /\ visible' = visible
            /\ tracked' = tracked
        /\ CallFailed(out') =>
            /\ favs' = favs
            /\ \/ out'.sent = << >> /\ tracked' = tracked /\ visible' = visible
               \/ /\ \E e \in UserErrors : out'.sent = << Scr("error", e, << >>, 0) >>
                  /\ tracked'[out'.user] = out'.ids]_vars
\* A toggle has added a favorite of a user who has another favorite and a tracked
\* screen, which is still there.
C25_Witness ==
    /\ ToggleAsked(out) /\ "was" \in DOMAIN out.info /\ ~out.info.was
    /\ IsFavorite(favs, out.user, out.inp[2])
    /\ OtherFavs(RowsOf(favs, out.user), out.user, out.inp[2]) # << >>
    /\ tracked[out.user] # << >>
    /\ Range(tracked[out.user]) \subseteq visible[out.user]

\* ------------------------------------------------- the payloads of a name
\* Any name over NameChars is encoded into a select payload or a meal-page payload
\* by the keyboard builders and decoded by the branch of cb that takes it.
MaxNameLen == 3
PayloadPages == {0, 1, MaxPage, 10 + MaxPage}
NoPayload ==
    [name |-> << >>, page |-> 0, kind |-> "area", done |-> FALSE, op |-> "", data |-> << >>,
     branch |-> "", ok |-> FALSE, gotName |-> << >>, gotPage |-> 0]
PayloadInputs ==
    {[NoPayload EXCEPT !.name = n, !.page = k, !.kind = kind] :
        n \in TextsOver(NameChars, MaxNameLen), k \in PayloadPages, kind \in {"area", "cat"}}
InitPayload ==
    /\ mode = [u \in Users |-> "none"]
    /\ settings = [u \in Users |-> << >>]
    /\ history = << >> /\ histSeq = 0 /\ histLog = << >> /\ favs = << >>
    /\ tracked = [u \in Users |-> << >>]
    /\ visible = [u \in Users |-> {}]
    /\ out = NoOut
    /\ pg \in PayloadInputs
\* a button of list_kb is pressed
SelPayload ==
    /\ ~pg.done
    /\ LET data == sel_data(pg.kind, pg.name)
       IN  pg' = [pg EXCEPT !.done = TRUE, !.op = "sel", !.data = data,
                            !.branch = cb_branch(data), !.ok = TRUE,
                            !.gotName = cb_sel_name(data), !.gotPage = 0]
    /\ UNCHANGED << mode, settings, history, histSeq, histLog, favs, tracked, visible, out >>
\* Prev or Next of meals_kb is pressed
MealsPagePayload ==
    /\ ~pg.done
    /\ LET data == meals_page_data(pg.kind, pg.name, pg.page)
           got == cb_meals_page_args(data)
       IN  pg' = [pg EXCEPT !.done = TRUE, !.op = "meals_page", !.data = data,
                            !.branch = cb_branch(data), !.ok = got.ok,
                            !.gotName = got.name, !.gotPage = got.page]
    /\ UNCHANGED << mode, settings, history, histSeq, histLog, favs, tracked, visible, out >>
NextPayload == SelPayload \/ MealsPagePayload
SpecPayload == InitPayload /\ [][NextPayload]_vars

\* C26: the payload a keyboard builds for a name (and a page) is taken by the
\* branch of cb for its kind, which decodes the same name (and the same page).
C26_PayloadRoundTrip ==
    pg.done =>
        /\ pg.ok
        /\ pg.gotName = pg.name
        /\ pg.op = "sel" => pg.branch = pg.kind \o ":sel"
        /\ pg.op = "meals_page" => (pg.branch = pg.kind \o "_meals:page" /\ pg.gotPage = pg.page)
\* a meal-page payload of a name holding the separator, a blank and a percent sign,
\* with a page of two digits
C26_Witness ==
    /\ pg.done /\ pg.op = "meals_page"
    /\ {":", " ", "%"} \subseteq Range(pg.name)
    /\ pg.page >= 10
    /\ pg.gotName = pg.name /\ pg.gotPage = pg.page
    /\ Len(pg.data) > Len(pg.name) + 7

\* ------------------------------------------- the calls of an ingredient search
\* The calls in flight after the first k events
InFlight(ev, k) ==
    {ev[i].call : i \in {j \in 1..k : ev[j].ev = "issued"}}
    \ {ev[i].call : i \in {j \in 1..k : ev[j].ev = "returned"}}

\* C27: an ingredient search with n tokens issues n calls, all of them before the
\* response of any is awaited, and never has more than 8 in flight.
C27_CallsConcurrent ==
    (IngSearch /\ out.info.tokens # << >>) =>
        LET ev == out.info.events
            n == Len(out.info.tokens)
        IN  /\ n <= MAX_TOKENS
            /\ {ev[i].call : i \in {j \in 1..Len(ev) : ev[j].ev = "issued"}} = 1..n
            /\ \A i, j \in 1..Len(ev) : (ev[i].ev = "issued" /\ ev[j].ev = "returned") => i < j
            /\ \A k \in 1..Len(ev) : Cardinality(InFlight(ev, k)) <= MAX_TOKENS
\* What the code does instead: at most 8 calls, one in flight at a time
C27_CallsInTurn ==
    (IngSearch /\ out.info.tokens # << >>) =>
        LET ev == out.info.events
        IN  /\ Len(out.calls) <= Min(Len(out.info.tokens), MAX_TOKENS)
            /\ \A k \in 1..Len(ev) : Cardinality(InFlight(ev, k)) <= 1

\* ------------------------------------------- confirmations without a command
\* Users who view meals, toggle favorites and send confirmation callbacks, and who
\* never send /clearhistory or /clearfavorites: cb takes a confirmation whatever
\* came before it (the button pressed may be the one of a confirmation shown to
\* another member of the chat), and the data may hold any answer.
ConfirmUsers == {1}
ConfirmAnswers ==
    {<< "confirm", kind, answer >> : kind \in {"history", "favorites", "other"},
                                    answer \in {"yes", "no", "maybe"}}
InitConfirm == InitBot({})
NextConfirm ==
    \E u \in ConfirmUsers :
        \/ histSeq < MaxInserts /\ RandomCmd(u, << Found(<< 1 >>) >>, TgNoPhoto)
        \/ \E mid \in Meals : Cb(u, << "fav", mid >>, << Found(<< mid >>) >>, TgOk)
        \/ \E data \in ConfirmAnswers : Cb(u, data, << >>, TgOk)
SpecConfirm == InitConfirm /\ [][NextConfirm]_vars

\* The numbers of history entries and of favorites of user u
HistCount(u) == Len(RowsOf(history, u))
FavCount(u) == Len(RowsOf(favs, u))

\* C28: bulk clears happen only in a "yes" confirmation that follows the user's clear
\* command; so where no clear command is ever sent, no update removes more than
\* one entry of a user's history or favorites.
C28_NoClearWithoutCommand ==
    [][\A u \in Users :
        /\ HistCount(u)' >= HistCount(u) - 1
        /\ FavCount(u)' >= FavCount(u) - 1]_vars
\* What the code keeps: more than one entry is removed only by a confirmation
\* callback of that kind whose answer is not "no", and only from its sender.
C28_ClearsOnlyOnConfirm ==
    [][\A u \in Users :
        /\ HistCount(u)' < HistCount(u) - 1 =>
            /\ out'.user = u /\ out'.trig = "cb" /\ Len(out'.inp) = 3
            /\ SubSeq(out'.inp, 1, 2) = << "confirm", "history" >> /\ out'.inp[3] # "no"
        /\ FavCount(u)' < FavCount(u) - 1 =>
            /\ out'.user = u /\ out'.trig = "cb" /\ Len(out'.inp) = 3
            /\ SubSeq(out'.inp, 1, 2) = << "confirm", "favorites" >> /\ out'.inp[3] # "no"]_vars

\* ------------------------------------------------- a search that fails
\* One user with views and favorites searches by name and by ingredients; the
\* catalog answers or fails, and Telegram may refuse the reply about the failure.
RetryUsers == {1}
RetryTexts == {<< "a" >>, << "a", ",", "B" >>}
RetryResponses == {Found(<< 1 >>), Failure("TimeoutException"), Failure("HTTPStatusError")}
TgRetry == {TgNoPhoto, [TgNoPhoto EXCEPT !.errSendOk = FALSE]}
InitRetry == InitBot(RetryUsers)
NextRetry ==
    \E u \in RetryUsers, tg \in TgRetry :
        \/ NameCmd(u, tg)
        \/ FindCmd(u, tg)
        \/ histSeq < MaxInserts /\ RandomCmd(u, << Found(<< 1 >>) >>, tg)
        \/ Cb(u, << "fav", 1 >>, << Found(<< 1 >>) >>, tg)
        \/ \E raw \in RetryTexts :
            \E api \in [1..TextCalls(u, Strip(raw)) -> RetryResponses] :
                \E ord \in Orders(api) : OnText(u, raw, api, tg, ord)
SpecRetry == InitRetry /\ [][NextRetry]_vars

\* The update that o records was a name search or an ingredient search one of
\* whose catalog calls failed.
SearchFailed(o) ==
    /\ o.trig = "text" /\ o.preMode \in {"name", "ing"} /\ o.inp \notin Buttons
    /\ CallFailed(o)
\* The maxResults setting a row stands for
MaxOf(row) == DB_get_max(row).val

\* C29: a name search or ingredient search whose catalog call fails leaves the mode
\* as it was, and the maxResults setting, the history and the favorites unchanged;
\* the user's next text is then taken as the input of the same kind of search.
C29_FailedSearchKeepsMode ==
    /\ [][SearchFailed(out') =>
            /\ mode' = mode
            /\ mode'[out'.user] = out'.preMode
            /\ \A u \in Users : MaxOf(settings'[u]) = MaxOf(settings[u])
            /\ history' = history
            /\ favs' = favs]_vars
    /\ [][(SearchFailed(out) /\ out'.user = out.user /\ out'.trig = "text"
            /\ out'.inp \notin Buttons) =>
            /\ out'.preMode = out.preMode
            /\ out'.calls # << >>
            /\ out'.calls[1].op = out.calls[1].op]_vars
\* An ingredient search of a user with a view, a favorite and a stored maximum has
\* failed at its second call, after a name search that failed too, and "ing" is
\* still the mode.
C29_Witness ==
    /\ SearchFailed(out) /\ out.preMode = "ing"
    /\ Len(out.calls) = 2 /\ out.calls[1].raised = "none"
    /\ mode[out.user] = "ing"
    /\ history # << >> /\ favs # << >>
    /\ settings[out.user] = << 15 >>

\* -------------------------------------------- the lookup of the toggle
\* C30: a toggle of a meal that is not a favorite leaves the favorites as they are
\* when its lookup fails, and adds the meal under the placeholder name when its
\* lookup finds no meal.
C30_ToggleLookup ==
    [][(ToggleAsked(out') /\ out'.tg.answerOk /\ out'.inp[2] # EmptyId
        /\ ~IsFavorite(favs, out'.user, out'.inp[2])) =>
            /\ out'.calls # << >> /\ out'.calls[1].op = "lookup"
            /\ CallFailed(out') => favs' = favs
            /\ (~CallFailed(out') /\ ~out'.info.found) =>
                    favs' = Append(favs, [user |-> out'.user, meal |-> out'.inp[2],
                                          name |-> PLACEHOLDER])]_vars
\* A toggle whose lookup found no meal has added the favorite "-" to the favorites
\* of a user who has another one.
C30_Witness ==
    /\ ToggleAsked(out) /\ ~CallFailed(out)
    /\ "found" \in DOMAIN out.info /\ ~out.info.found
    /\ Len(RowsOf(favs, out.user)) = 2
    /\ favs[Len(favs)] = [user |-> out.user, meal |-> out.inp[2], name |-> PLACEHOLDER]
\* The lookup of a toggle has failed for a user who has a favorite.
C30_FailedLookup ==
    /\ ToggleAsked(out) /\ CallFailed(out)
    /\ RowsOf(favs, out.user) # << >>

====
